---- MODULE Spec2Model ----
(***************************************************************************)
(* State-machine model of the bulk transfer and job polling code of the    *)
(* autos package: db/postgres.py (load_rows, load_from_file,               *)
(* load_from_filenames, dblink_bq, extract),                               *)
(* googlecloud/bigquery/io.py (execute, poll, BigQueryIO),                 *)
(* googlecloud/bigquery/jobs.py (Jobs._begin, Jobs.run), the legacy        *)
(* googlecloud/bigquery.py (Jobs.start, execute, poll),                    *)
(* fbapi/marketing/reports.py (ReportsDownloader.run_until_complete),      *)
(* utils/csv.py (fwrite_csv, fread_csv), utils/iterable.py (dedupe,        *)
(* partition, chunk_iterable), utils/date.py (date_range),                 *)
(* fbapi/marketing/custom_audience.py (update), googleapi/drive.py         *)
(* (incremental_download) and googleapi/sheets.py (Sheets.spreadsheet_id,  *)
(* reload, execute, batch_update).                                         *)
(*                                                                         *)
(* The program is single threaded: one behaviour of the model is one call  *)
(* of one entry point (comp, args), executed step by step (pc), together   *)
(* with the steps of the remote services it talks to.                      *)
(***************************************************************************)
EXTENDS Integers, Sequences, FiniteSets, TLC

\* ------------------------------------------------------------------ bounds
MaxRows == 2        \* longest row sequence handed to a load
MaxTableRows == 1   \* most rows the destination table holds before a call
MaxPolls == 2       \* poll() calls made on one job object
MaxJobs == 3        \* jobs added to one batch
MaxCycles == 3      \* reloads after which a remote job is DONE at the latest
MaxAccounts == 2    \* ad accounts of one ReportsDownloader
MaxSubmits == 4     \* insights jobs submitted during one pull
MaxPaths == 2       \* files handed to one BigQuery load
MaxShards == 2      \* files of one multi-file load, shards of one export
MaxFields == 2      \* fields of one CSV row
MaxChunks == 2      \* chunks handed to one custom audience update
MaxRetry == 3       \* largest max_retry an update is called with
MaxCalls == 18      \* calls of next_chunk made by one download
MaxItems == 4       \* items handed to dedupe, partition and chunk_iterable
MaxSize == 3        \* largest k of partition and size of chunk_iterable
MaxDate == 4        \* latest date handed to date_range, in days from date.min
MaxOps == 4         \* calls made on one Sheets wrapper

VARIABLES
    comp,       \* the component whose entry point was called
    args,       \* the arguments of the call
    pc,         \* position of the program inside the call
    exc,        \* exception propagating inside the call ("none" if none)
    outcome,    \* "running", "returned" or the name of the exception raised
    \* ---- db/postgres.py
    table,      \* committed rows of the destination table
    txn,        \* rows of the table as seen by the open transaction
    fs,         \* the file system: path -> rows of the CSV file
    filename,   \* the path load_from_filename was called with
    table0,     \* the table at the time of the call
    \* ---- bigquery io.py / legacy bigquery.py: one job object
    job,        \* the local job object: state, error_result, errors, name
    remote,     \* the job as the service holds it: state, error_result, errors
    jhist,      \* what was called on the job: begins, reloads, sleeps, ...
    raised,     \* the exception object raised by poll (its payload)
    \* ---- bigquery jobs.py Jobs / legacy bigquery.py Jobs: a batch
    jobs,       \* self.jobs: the list of added jobs
    queue,      \* the deque of begun jobs that are polled
    bjob,       \* job id -> local state, error_result, reload and begin counts
    fate,       \* job id -> the remote's course: need (reloads until DONE), fails
    collected,  \* the jobs in the order in which they were observed DONE
    handled,    \* the jobs handle_error was called for
    \* ---- fbapi reports.py
    rqueue,     \* jobs_not_completed
    yielded,    \* the jobs yielded by run_until_complete, in order
    submitted,  \* every job submitted: account, gen, need, fails
    rhist,      \* history of the pull: reads per job, resubmissions in the loop
    \* ---- bigquery io.py BigQueryIO
    bq,         \* dataset/table existence, uploaded files, jobs created
    \* ---- db/postgres.py load_from_filenames, dblink_bq; storage/bucket.py
    paths,      \* the paths load_from_filenames still has to iterate over
    loaded,     \* the calls of load_from_filename made so far, in order
    bucket,     \* the export bucket: blob name -> lines of the object
    \* ---- utils/csv.py
    csvfile,    \* the characters fwrite_csv wrote to the file object
    csvrows,    \* what fread_csv yielded when it read them back
    \* ---- fbapi custom_audience.py update
    upd_idx,    \* index of the chunk being sent
    upd_i,      \* the attempt counter of "for i in range(max_retry)"
    upd_calls,  \* chunk -> number of calls of the API made for it
    upd_sleeps, \* the arguments of time.sleep, in order
    \* ---- googleapi/drive.py incremental_download
    done,       \* the flag next_chunk returned last
    num_retries,\* the retry counter
    dlhist,     \* calls of next_chunk and of sleep made so far
    \* ---- utils/iterable.py dedupe
    dd_items,   \* the items the loop has not consumed yet
    seen,       \* the set of key values seen
    dd_out,     \* the items yielded so far
    \* ---- bigquery jobs.py Jobs.run
    delay_mean, \* the mean handed to random_delay last: numerator, denominator
    \* ---- fbapi custom_audience.py update
    upd_resp,   \* what the API answered to each call, in order, with its chunk
    \* ---- utils/iterable.py partition, chunk_iterable; utils/date.py date_range
    result,     \* what the function returned or yielded, and how it ended
    \* ---- googleapi/sheets.py Sheets
    sheets,     \* the wrapper: _spreadsheet_id, _metadata, _properties
    spreadsheet,\* the remote spreadsheet: the properties of its sheets
    shist       \* calls made on the wrapper and requests sent to the API

ctl == <<comp, args, pc, exc, outcome>>
pgVars == <<table, txn, fs, filename, table0, paths, loaded, bucket>>
jobVars == <<job, remote, jhist, raised>>
batchVars == <<jobs, queue, bjob, fate, collected, handled>>
repVars == <<rqueue, yielded, submitted, rhist>>
bqVars == <<bq>>
utilVars == <<csvfile, csvrows, upd_idx, upd_i, upd_calls, upd_sleeps,
              done, num_retries, dlhist, dd_items, seen, dd_out>>
coreVars == <<pgVars, jobVars, batchVars, repVars, bqVars>>
restVars == <<delay_mean, upd_resp, result, sheets, spreadsheet, shist>>
vars == <<ctl, pgVars, jobVars, batchVars, repVars, bqVars, utilVars, restVars>>

\* ----------------------------------------------------------------- helpers
SeqsUpTo(S, n) == UNION {[1..k -> S] : k \in 0..n}

Range(s) == {s[i] : i \in DOMAIN s}

\* ============================================================ db/postgres.py
Rows == {"r1", "r2"}
NoTxn == [open |-> FALSE, rows |-> <<>>]
OpenTxn(rows) == [open |-> TRUE, rows |-> rows]
NoFiles == [p \in {} |-> <<>>]
TmpPath == "tmp.csv"        \* the name NamedTemporaryFile picks
SrcPath == "data.csv"       \* a file of the caller
TableName == "t"            \* the destination table
ColumnLine == "id,name"     \* the line of column names of a result

\* the files of a multi-file load: the shards an export writes
ShardNames == <<"shard-0.csv", "shard-1.csv", "shard-2.csv", "shard-3.csv">>
ShardContents == {<<"r1">>, <<"r1", "r2">>}
FirstShards(n) == [i \in 1..n |-> ShardNames[i]]

\* the sequences without repetition over the set S
Orderings(S) == {s \in SeqsUpTo(S, Cardinality(S)) :
                    \A i, k \in DOMAIN s : i # k => s[i] # s[k]}

\* an iterable handed to load_from_filenames: a list, or the generator that
\* copy_csv_to / dump return (nothing of its body has run before the first next)
ListPaths(ps) == [generator |-> FALSE, started |-> TRUE, rest |-> ps]
GeneratorPaths == [generator |-> TRUE, started |-> FALSE, rest |-> <<>>]
NoPaths == ListPaths(<<>>)

\* the values the other components' variables keep while one component runs
IdlePg ==
    /\ table = <<>> /\ txn = NoTxn /\ fs = NoFiles /\ filename = "" /\ table0 = <<>>
    /\ paths = NoPaths /\ loaded = <<>> /\ bucket = NoFiles

\* COPY table FROM STDIN WITH (FORMAT CSV, HEADER h): appends the lines of the
\* file to the table, without the first line when HEADER is TRUE.
CopyFrom(tbl, lines, header) ==
    tbl \o (IF header /\ Len(lines) > 0 THEN Tail(lines) ELSE lines)

\* the arguments of a call of the Postgres class
PgArgs(api, rows, trunc, hdr) ==
    [api |-> api, rows |-> rows, truncate_table |-> trunc, header |-> hdr,
     table_name |-> TableName, glob_pattern |-> "", paths |-> <<>>, globbed |-> <<>>,
     query |-> "", source |-> "", use_copy |-> TRUE]

\* One call of the Postgres class:
\*  - load_rows(rows, table_name, truncate_table) and
\*    load_from_filename(filename, table_name, truncate_table=...);
\*  - load_from_filenames(table_name, glob_pattern, paths, **load_kwargs) in a
\*    directory of n files; globbed is what glob.iglob(glob_pattern) yields;
\*  - dblink_bq(bqio, dest, query, source, dir): the load options are the
\*    defaults of load_from_file (header=True, truncate_table=False);
\*  - extract(filename, query, header=..., use_copy=...): table holds the rows
\*    of the query.
InitPg ==
    /\ comp = "postgres"
    /\ \/ /\ \E api \in {"load_rows", "load_from_filename"},
                rows \in SeqsUpTo(Rows, MaxRows), trunc \in BOOLEAN, hdr \in BOOLEAN :
                /\ args = PgArgs(api, rows, trunc, IF api = "load_rows" THEN TRUE ELSE hdr)
                /\ pc = IF api = "load_rows" THEN "to_temp_file" ELSE "open_csv"
                /\ fs = IF api = "load_rows" THEN NoFiles ELSE (SrcPath :> rows)
                /\ filename = IF api = "load_rows" THEN "" ELSE SrcPath
          /\ table \in SeqsUpTo(Rows, MaxTableRows)
       \/ /\ \E n \in 0..MaxShards, trunc \in BOOLEAN, hdr \in BOOLEAN,
                glob \in {"", "*.csv"} :
                LET names == Range(FirstShards(n))
                IN /\ fs \in [names -> ShardContents]
                   /\ \E ps \in Orderings(names),
                         g \in {o \in Orderings(names) : Len(o) = n} :
                         args = [PgArgs("load_from_filenames", <<>>, trunc, hdr)
                                    EXCEPT !.glob_pattern = glob, !.paths = ps,
                                           !.globbed = IF glob = "" THEN <<>> ELSE g]
          /\ pc = "load_from_filenames"
          /\ filename = ""
          /\ table \in SeqsUpTo(Rows, MaxTableRows)
       \/ /\ \E q \in {"", "SELECT"}, src \in {"", "ds.tbl"} :
                args = [PgArgs("dblink_bq", <<>>, FALSE, TRUE)
                           EXCEPT !.query = q, !.source = src]
          /\ pc = "dblink_bq"
          /\ fs = NoFiles
          /\ filename = ""
          /\ table \in SeqsUpTo(Rows, MaxTableRows)
       \/ /\ \E hdr \in BOOLEAN, uc \in BOOLEAN :
                args = [PgArgs("extract", <<>>, FALSE, hdr) EXCEPT !.use_copy = uc]
          /\ pc = "extract"
          /\ fs = NoFiles
          /\ filename = SrcPath
          /\ table \in SeqsUpTo(Rows, MaxRows)
    /\ table0 = table
    /\ txn = NoTxn
    /\ paths = NoPaths
    /\ loaded = <<>>
    /\ bucket = NoFiles
    /\ exc = "none"
    /\ outcome = "running"

\* to_temp_file: NamedTemporaryFile(delete=False), to_file(rows, file)
to_temp_file ==
    /\ pc = "to_temp_file"
    /\ fs' = fs @@ (TmpPath :> args.rows)
    /\ filename' = TmpPath
    /\ pc' = "open_csv"
    /\ UNCHANGED <<comp, args, exc, outcome, table, txn, table0, paths, loaded, bucket,
                   jobVars, batchVars, repVars, bqVars, utilVars, restVars>>

\* the call load_from_filename(filename, table_name=..., **load_kwargs) as
\* load_from_file receives it
LoadCall(path, a) ==
    [filename |-> path, table_name |-> a.table_name,
     truncate_table |-> a.truncate_table, header |-> a.header]

\* load_from_filename: open_csv(filename), then load_from_file enters
\* "with file, self.conn, self.conn.cursor() as cursor"
open_csv ==
    /\ pc = "open_csv"
    /\ filename \in DOMAIN fs
    /\ txn' = OpenTxn(table)
    /\ loaded' = Append(loaded, LoadCall(filename, args))
    /\ pc' = IF args.truncate_table THEN "truncate" ELSE "copy_expert"
    /\ UNCHANGED <<comp, args, exc, outcome, table, fs, filename, table0, paths, bucket,
                   jobVars, batchVars, repVars, bqVars, utilVars, restVars>>

\* cursor.execute('TRUNCATE TABLE ...'): empties the table inside the
\* transaction, or raises
Truncated(tbl) == <<>>

truncate_step ==
    /\ pc = "truncate"
    /\ \/ /\ txn' = OpenTxn(Truncated(txn.rows))
          /\ pc' = "copy_expert"
          /\ exc' = exc
       \/ /\ exc' = "psycopg2.ProgrammingError"
          /\ pc' = "with_exit"
          /\ txn' = txn
    /\ UNCHANGED <<comp, args, outcome, table, fs, filename, table0, paths, loaded, bucket,
                   jobVars, batchVars, repVars, bqVars, utilVars, restVars>>

\* cursor.copy_expert(copy_sql, file): loads the file, or raises
copy_expert ==
    /\ pc = "copy_expert"
    /\ \/ /\ txn' = OpenTxn(CopyFrom(txn.rows, fs[filename], args.header))
          /\ exc' = exc
       \/ /\ exc' = "psycopg2.DataError"
          /\ txn' = txn
    /\ pc' = "with_exit"
    /\ UNCHANGED <<comp, args, outcome, table, fs, filename, table0, paths, loaded, bucket,
                   jobVars, batchVars, repVars, bqVars, utilVars, restVars>>

\* mutant of ConnExit: the connection commits whatever happened in the block
ConnExitAlwaysCommits(committed, working, e) == working

\* the value of the table when the "with self.conn" block is left: the
\* connection commits when no exception left the block and rolls back otherwise
ConnExit(committed, working, e) == IF e = "none" THEN working ELSE committed

\* what load_rows does after load_from_filename returned: remove_file(filename)
AfterLoad(files, path) == [p \in DOMAIN files \ {path} |-> files[p]]

\* leaving the with block; the exception, if any, propagates out of
\* load_from_file, load_from_filename and their caller; load_from_filenames
\* goes on with the next path when load_from_filename returned
with_exit ==
    /\ pc = "with_exit"
    /\ table' = ConnExit(table, txn.rows, exc)
    /\ txn' = NoTxn
    /\ IF exc # "none"
         THEN /\ outcome' = exc
              /\ pc' = "done"
              /\ fs' = fs
         ELSE IF args.api = "load_rows"
         THEN /\ fs' = AfterLoad(fs, filename)
              /\ outcome' = "returned"
              /\ pc' = "done"
         ELSE IF args.api = "load_from_filename"
         THEN /\ fs' = fs
              /\ outcome' = "returned"
              /\ pc' = "done"
         ELSE /\ fs' = fs
              /\ outcome' = outcome
              /\ pc' = "next_path"
    /\ UNCHANGED <<comp, args, exc, filename, table0, paths, loaded, bucket,
                   jobVars, batchVars, repVars, bqVars, utilVars, restVars>>

\* "if query: paths = bqio.copy_csv_to(...) elif source: paths = bqio.dump(...)
\* else: raise ValueError", then load_from_filenames(table_name=dest, paths=paths)
dblink_bq ==
    /\ pc = "dblink_bq"
    /\ IF args.query # "" \/ args.source # ""
         THEN /\ paths' = GeneratorPaths
              /\ pc' = "load_from_filenames"
              /\ outcome' = outcome
         ELSE /\ paths' = paths
              /\ pc' = "done"
              /\ outcome' = "ValueError"
    /\ UNCHANGED <<comp, args, exc, table, txn, fs, filename, table0, loaded, bucket,
                   jobVars, batchVars, repVars, bqVars, utilVars, restVars>>

\* "not paths": an empty list or tuple is false, a generator object is true
Falsy(ps) == ~ps.generator /\ ps.rest = <<>>

\* mutant of PathsToLoad: paths is considered before glob_pattern
PathsFirst(glob, globbed, ps) == IF ~Falsy(ps) THEN ps ELSE ListPaths(globbed)

\* "if glob_pattern: paths = glob.iglob(glob_pattern)"
PathsToLoad(glob, globbed, ps) == IF glob # "" THEN ListPaths(globbed) ELSE ps

\* load_from_filenames up to its loop: "if not glob_pattern and not paths:
\* raise ValueError"
load_from_filenames ==
    /\ pc = "load_from_filenames"
    /\ LET ps == IF args.api = "dblink_bq" THEN paths ELSE ListPaths(args.paths)
       IN IF args.glob_pattern = "" /\ Falsy(ps)
            THEN /\ outcome' = "ValueError"
                 /\ pc' = "done"
                 /\ paths' = paths
            ELSE /\ paths' = PathsToLoad(args.glob_pattern, args.globbed, ps)
                 /\ pc' = "next_path"
                 /\ outcome' = outcome
    /\ UNCHANGED <<comp, args, exc, table, txn, fs, filename, table0, loaded, bucket,
                   jobVars, batchVars, repVars, bqVars, utilVars, restVars>>

\* what ends copy_csv_to / dump before they yield a path: JobError of
\* execute(job), and for dump DatasetNotFound of get_table
ExportErrors(a) == IF a.query # "" THEN {"JobError"} ELSE {"JobError", "DatasetNotFound"}

\* the first next() on the generator of copy_csv_to / dump: execute_query,
\* export_table_as_csv write the shards gs://bucket/prefix-* and
\* download_files lists them; or one of the jobs raises
export_table_as_csv ==
    /\ pc = "next_path"
    /\ paths.generator /\ ~paths.started
    /\ \/ \E n \in 1..MaxShards :
             /\ bucket' \in [Range(FirstShards(n)) -> ShardContents]
             /\ paths' = [generator |-> TRUE, started |-> TRUE, rest |-> FirstShards(n)]
             /\ UNCHANGED <<pc, outcome>>
       \/ \E e \in ExportErrors(args) :
             /\ outcome' = e
             /\ pc' = "done"
             /\ UNCHANGED <<paths, bucket>>
    /\ UNCHANGED <<comp, args, exc, table, txn, fs, filename, table0, loaded,
                   jobVars, batchVars, repVars, bqVars, utilVars, restVars>>

\* Bucket.download_files: "with open(path, 'wb') as fp: blob.download_to_file(fp)"
Downloaded(files, objects, p) == [q \in DOMAIN files \cup {p} |->
                                     IF q = p THEN objects[p] ELSE files[q]]

\* "for path in paths": the next path (of the generator: download_files
\* downloads the next blob into dir and yields its path), or the end of the loop
next_path ==
    /\ pc = "next_path"
    /\ paths.started
    /\ IF paths.rest = <<>>
         THEN /\ outcome' = "returned"
              /\ pc' = "done"
              /\ UNCHANGED <<paths, fs, filename>>
         ELSE /\ filename' = Head(paths.rest)
              /\ paths' = [paths EXCEPT !.rest = Tail(@)]
              /\ fs' = IF paths.generator
                         THEN Downloaded(fs, bucket, Head(paths.rest)) ELSE fs
              /\ pc' = "open_csv"
              /\ outcome' = outcome
    /\ UNCHANGED <<comp, args, exc, table, txn, table0, loaded, bucket,
                   jobVars, batchVars, repVars, bqVars, utilVars, restVars>>

\* get_header: the text of the HEADER option
get_header(header) == IF header THEN "TRUE" ELSE "FALSE"

\* the truth value Python gives a str in "if with_header:"
Truthy(s) == s # ""

\* COPY (query) TO STDOUT WITH (FORMAT CSV, HEADER opt): the lines written
CopyTo(rows, opt) == IF opt = "TRUE" THEN <<ColumnLine>> \o rows ELSE rows

\* select(query, with_header): "if with_header: yield header", then the rows
Select(rows, with_header) == IF Truthy(with_header) THEN <<ColumnLine>> \o rows ELSE rows

\* extract: "header = self.get_header(header)", then either copy_expert of
\* COPY ... TO STDOUT, or to_file(select(query, with_header=header))
ExtractLines(rows, header, use_copy) ==
    IF use_copy THEN CopyTo(rows, get_header(header))
    ELSE Select(rows, get_header(header))

extract ==
    /\ pc = "extract"
    /\ fs' = (filename :> ExtractLines(table, args.header, args.use_copy))
    /\ outcome' = "returned"
    /\ pc' = "done"
    /\ UNCHANGED <<comp, args, exc, table, txn, filename, table0, paths, loaded, bucket,
                   jobVars, batchVars, repVars, bqVars, utilVars, restVars>>

PgNext ==
    \/ to_temp_file \/ open_csv \/ truncate_step \/ copy_expert \/ with_exit
    \/ dblink_bq \/ load_from_filenames \/ export_table_as_csv \/ next_path \/ extract


\* ===================== googlecloud/bigquery/io.py and legacy bigquery.py: one job
States == <<"PENDING", "RUNNING", "DONE">>
StateSet == Range(States)
Rank(s) == CHOOSE i \in DOMAIN States : States[i] = s
Reasons == {"invalid", "notFound"}
JobName == "job-1"
NoExc == [type |-> "none"]

\* the service's job record in state s, ended with error e ("none": no error)
RemoteJob(s, e) ==
    [state |-> s,
     error_result |-> IF s = "DONE" THEN e ELSE "none",
     errors |-> IF s = "DONE" /\ e # "none" THEN <<[reason |-> e]>> ELSE <<>>]

\* the local job object after it took the service's record r
LocalJob(r) ==
    [name |-> JobName, state |-> r.state, error_result |-> r.error_result,
     tagged |-> FALSE, errors |-> r.errors]

NewJob == [name |-> JobName, state |-> "NONE", error_result |-> "none",
           tagged |-> FALSE, errors |-> <<>>]
NoRemote == [state |-> "NONE", error_result |-> "none", errors |-> <<>>]
NoHist == [begins |-> 0, reloaded |-> FALSE, beginsAtFirstReload |-> 0,
           reloadAfterDone |-> FALSE, beginAfterFailure |-> FALSE,
           lastOp |-> "none", polls |-> 0, reloadsInPoll |-> FALSE,
           stateAtPoll |-> "NONE"]

IdleJob == /\ job = NewJob /\ remote = NoRemote /\ jhist = NoHist /\ raised = NoExc

\* execute(job) on a fresh job, or poll(job) on a job the caller has begun
InitJob ==
    /\ comp = "job"
    /\ exc = "none"
    /\ outcome = "running"
    /\ raised = NoExc
    /\ \E api \in {"execute", "poll"}, module \in {"io", "legacy"} :
          /\ args = [api |-> api, module |-> module]
          /\ \/ /\ api = "execute"
                /\ pc = "begin"
                /\ job = NewJob
                /\ remote = NoRemote
                /\ jhist = NoHist
             \/ /\ api = "poll"
                /\ pc = "poll_while"
                /\ \E s \in StateSet, l \in StateSet, e \in Reasons \cup {"none"} :
                      /\ Rank(l) <= Rank(s)
                      /\ s # "DONE" => e = "none"
                      /\ remote = RemoteJob(s, e)
                      /\ job = LocalJob(RemoteJob(l, e))
                      /\ jhist = [NoHist EXCEPT !.begins = 1, !.polls = 1,
                                                !.lastOp = "begin", !.stateAtPoll = l]

\* the service runs the job: PENDING -> RUNNING -> DONE, with or without an error
RemoteAdvance ==
    /\ pc \in {"poll_while", "reload", "sleep"}
    /\ remote.state \in {"PENDING", "RUNNING"}
    /\ \E s \in StateSet, e \in Reasons \cup {"none"} :
          /\ Rank(s) > Rank(remote.state)
          /\ s # "DONE" => e = "none"
          /\ remote' = RemoteJob(s, e)
    /\ UNCHANGED <<ctl, job, jhist, raised, pgVars, batchVars, repVars, bqVars, utilVars,
                   restVars>>

\* job.begin(): the service creates the job and answers with its record
Begin(h) == [h EXCEPT !.begins = @ + 1, !.lastOp = "begin",
                      !.beginAfterFailure = @ \/ (job.error_result # "none")]

begin ==
    /\ pc = "begin"
    /\ \E s \in StateSet, e \in Reasons \cup {"none"} :
          /\ s # "DONE" => e = "none"
          /\ remote' = RemoteJob(s, e)
          /\ job' = LocalJob(RemoteJob(s, e))
    /\ jhist' = [Begin(jhist) EXCEPT !.polls = 1, !.stateAtPoll = job'.state]
    /\ pc' = "poll_while"
    /\ UNCHANGED <<comp, args, exc, outcome, raised, pgVars, batchVars, repVars, bqVars, utilVars,
                   restVars>>

\* mutant of PollContinues: the loop is left as soon as the job is not RUNNING
PollContinuesWhileRunning(j) == j.state = "RUNNING"

\* poll: "while job.state != 'DONE'"
PollContinues(j) == j.state # "DONE"

poll_while ==
    /\ pc = "poll_while"
    /\ pc' = IF PollContinues(job) THEN "reload" ELSE "check_error"
    /\ UNCHANGED <<comp, args, exc, outcome, jobVars, pgVars, batchVars, repVars, bqVars, utilVars,
                   restVars>>

\* job.reload(): the local object takes the record the service holds
Reload(h) == [h EXCEPT !.reloadAfterDone = @ \/ (job.state = "DONE" /\ h.reloaded),
                       !.beginsAtFirstReload = IF h.reloaded THEN @ ELSE h.begins,
                       !.reloaded = TRUE, !.reloadsInPoll = TRUE,
                       !.lastOp = "reload"]

reload ==
    /\ pc = "reload"
    /\ job' = LocalJob(remote)
    /\ jhist' = Reload(jhist)
    /\ pc' = "sleep"
    /\ UNCHANGED <<comp, args, exc, outcome, remote, raised, pgVars, batchVars, repVars, bqVars, utilVars,
                   restVars>>

\* time.sleep(1)
sleep ==
    /\ pc = "sleep"
    /\ jhist' = [jhist EXCEPT !.lastOp = "sleep"]
    /\ pc' = "poll_while"
    /\ UNCHANGED <<comp, args, exc, outcome, job, remote, raised, pgVars, batchVars, repVars, bqVars, utilVars,
                   restVars>>

\* mutant of JobError: the payload is not tagged with the job name
JobErrorUntagged(j) ==
    [type |-> "JobError", job_name |-> j.name,
     error_result |-> [reason |-> j.error_result], errors |-> j.errors]

\* errors.JobError(job): errors = [{'job_name': job.name}] + job.errors and
\* job.error_result['job_name'] = job.name
JobError(j) ==
    [type |-> "JobError", job_name |-> j.name,
     error_result |-> [reason |-> j.error_result, job_name |-> j.name],
     errors |-> <<[job_name |-> j.name]>> \o j.errors]

\* legacy: RuntimeError("{reason}: {message}".format(**job.error_result))
LegacyError(j) == [type |-> "RuntimeError", message |-> <<j.error_result, ": ", "message">>]

\* the exception poll raises for a job that ended with an error_result
PollError(module, j) == IF module = "io" THEN JobError(j) ELSE LegacyError(j)

\* mutant of AfterRaise: raising consumes the error_result of the job
AfterRaiseCleared(module, j) == [j EXCEPT !.error_result = "none"]

\* the job object after the exception was built: JobError.__init__ sets
\* job.error_result['job_name']; the legacy RuntimeError leaves the job alone
AfterRaise(module, j) == IF module = "io" THEN [j EXCEPT !.tagged = TRUE] ELSE j

\* "if job.error_result: raise ..."
check_error ==
    /\ pc = "check_error"
    /\ IF job.error_result # "none"
         THEN /\ raised' = PollError(args.module, job)
              /\ outcome' = raised'.type
              /\ job' = AfterRaise(args.module, job)
         ELSE /\ outcome' = "returned"
              /\ UNCHANGED <<raised, job>>
    /\ pc' = "done"
    /\ UNCHANGED <<comp, args, exc, remote, jhist, pgVars, batchVars, repVars, bqVars, utilVars,
                   restVars>>

\* the caller polls the same job object again after poll has ended
poll_again ==
    /\ comp = "job"
    /\ pc = "done"
    /\ jhist.polls < MaxPolls
    /\ jhist' = [jhist EXCEPT !.polls = @ + 1, !.reloadsInPoll = FALSE,
                              !.stateAtPoll = job.state]
    /\ outcome' = "running"
    /\ raised' = NoExc
    /\ pc' = "poll_while"
    /\ UNCHANGED <<comp, args, exc, job, remote, pgVars, batchVars, repVars, bqVars, utilVars,
                   restVars>>

JobNext == RemoteAdvance \/ begin \/ poll_while \/ reload \/ sleep \/ check_error \/ poll_again


\* ============== googlecloud/bigquery/jobs.py Jobs and legacy bigquery.py Jobs: a batch
\* The remote course of a job is its fate: the job is DONE from its need-th
\* reload on (need = 0: DONE already when begin() answers), with an
\* error_result iff fails.
Fates == [need : 0..MaxCycles, fails : BOOLEAN]

IdleBatch ==
    /\ jobs = <<>> /\ queue = <<>> /\ bjob = <<>> /\ fate = <<>>
    /\ collected = <<>> /\ handled = <<>>

\* Jobs(...) of jobs.py, or Jobs() of the legacy module, after construction
InitBatch ==
    /\ comp = "batch"
    /\ \E module \in {"jobs", "legacy"} : args = [api |-> "run", module |-> module]
    /\ pc = "idle"
    /\ exc = "none"
    /\ outcome = "returned"
    /\ IdleBatch

\* what the service reports for a job of fate f that was reloaded n times
RemoteState(f, n) == IF n >= f.need THEN "DONE" ELSE "RUNNING"
RemoteError(f, n) == n >= f.need /\ f.fails

\* QueryJobs.add / CopyJobs.add (legacy: Jobs.add): self.jobs.append(job)
NewBatchJob == [state |-> "NONE", error_result |-> FALSE, reloads |-> 0, begins |-> 0,
                reloadAfterDone |-> FALSE, beginAfterFailure |-> FALSE]

add ==
    /\ comp = "batch"
    /\ pc = "idle"
    /\ Len(bjob) < MaxJobs
    /\ \E f \in Fates :
          /\ fate' = Append(fate, f)
          /\ bjob' = Append(bjob, NewBatchJob)
          /\ jobs' = Append(jobs, Len(bjob) + 1)
    /\ UNCHANGED <<ctl, queue, collected, handled, pgVars, jobVars, repVars, bqVars, utilVars,
                   restVars>>

\* the caller calls run() (legacy: start(), called once on a batch)
run ==
    /\ comp = "batch"
    /\ pc = "idle"
    /\ args.module = "legacy" => \A j \in DOMAIN bjob : bjob[j].begins = 0
    /\ pc' = IF args.module = "jobs" THEN "_begin" ELSE "legacy_begin"
    /\ outcome' = "running"
    /\ queue' = <<>>
    /\ collected' = <<>>
    /\ handled' = <<>>
    /\ delay_mean' = [num |-> 0, den |-> 1]
    /\ UNCHANGED <<comp, args, exc, jobs, bjob, fate, pgVars, jobVars, repVars, bqVars, utilVars,
                   upd_resp, result, sheets, spreadsheet, shist>>

\* job.begin() on a batch job
BegunJob(b, f) ==
    [b EXCEPT !.begins = @ + 1, !.state = RemoteState(f, 0),
              !.error_result = RemoteError(f, 0),
              !.beginAfterFailure = @ \/ b.error_result]

\* job.reload() on a batch job
ReloadedJob(b, f) ==
    [b EXCEPT !.reloads = @ + 1, !.state = RemoteState(f, b.reloads + 1),
              !.error_result = RemoteError(f, b.reloads + 1),
              !.reloadAfterDone = @ \/ (b.state = "DONE" /\ b.reloads > 0)]

\* Jobs._begin, one iteration of "while jobs": job = jobs.pop(); job.begin();
\* queue.append(job)
Popped(js) == js[Len(js)]

\* mutant of AfterPop: the job stays in the pending list
AfterPopKept(js) == js

\* what jobs.pop() leaves in self.jobs
AfterPop(js) == SubSeq(js, 1, Len(js) - 1)

begin_step ==
    /\ pc = "_begin"
    /\ jobs # <<>>
    /\ LET j == Popped(jobs) IN
          /\ jobs' = AfterPop(jobs)
          /\ bjob' = [bjob EXCEPT ![j] = BegunJob(bjob[j], fate[j])]
          /\ queue' = Append(queue, j)
    /\ UNCHANGED <<ctl, fate, collected, handled, pgVars, jobVars, repVars, bqVars, utilVars,
                   restVars>>

\* Jobs._begin returns the queue when self.jobs is empty
begin_return ==
    /\ pc = "_begin"
    /\ jobs = <<>>
    /\ pc' = "run_while"
    /\ UNCHANGED <<comp, args, exc, outcome, batchVars, pgVars, jobVars, repVars, bqVars, utilVars,
                   restVars>>

\* mutant of Requeue: the job is re-appended whatever its state
RequeueAlways(q, j, st) == Append(q, j)

\* mutant of Requeue: the test of the state is inverted
RequeueInverted(q, j, st) == IF st = "DONE" THEN Append(q, j) ELSE q

\* mutant of Requeue: the job is put back at the head of the queue
RequeueAtHead(q, j, st) == IF st # "DONE" THEN <<j>> \o q ELSE q

\* Jobs.run: "if job.state != 'DONE': queue.append(job)"
Requeue(q, j, st) == IF st # "DONE" THEN Append(q, j) ELSE q

\* mutant of DelayMean: len(queue) is taken after the popleft
DelayMeanAfterPopleft(q) == [num |-> 3, den |-> Len(q) - 1]

\* Jobs.run: "delay_mean = 3/len(queue)", as the fraction num/den
DelayMean(q) == [num |-> 3, den |-> Len(q)]

\* mutant of handle_error: the error of the job is raised
handle_errorRaises(b) == "JobError"

\* handle_error(job): logs error_result and errors with the name of the job
\* and returns; the value is the exception it ends with
handle_error(b) == "none"

\* Jobs.run, one iteration of "while queue": delay_mean, popleft, reload,
\* random_delay ("assert mean != 0"), then re-append or handle the error
run_iter ==
    /\ pc = "run_while"
    /\ queue # <<>>
    /\ LET j == Head(queue)
           b == ReloadedJob(bjob[j], fate[j])
           mean == DelayMean(queue)
           failed == b.state = "DONE" /\ b.error_result
           raises == IF mean.den = 0 THEN "ZeroDivisionError"
                     ELSE IF mean.num = 0 THEN "AssertionError"
                     ELSE IF failed THEN handle_error(b) ELSE "none"
       IN /\ bjob' = IF mean.den = 0 THEN bjob ELSE [bjob EXCEPT ![j] = b]
          /\ queue' = IF raises = "none" THEN Requeue(Tail(queue), j, b.state)
                      ELSE IF mean.den = 0 THEN queue ELSE Tail(queue)
          /\ delay_mean' = IF mean.den = 0 THEN delay_mean ELSE mean
          /\ collected' = IF raises = "none" /\ b.state = "DONE"
                            THEN Append(collected, j) ELSE collected
          /\ handled' = IF raises = "none" /\ failed THEN Append(handled, j) ELSE handled
          /\ outcome' = IF raises = "none" THEN outcome ELSE raises
          /\ pc' = IF raises = "none" THEN pc ELSE "idle"
    /\ UNCHANGED <<comp, args, exc, jobs, fate, pgVars, jobVars, repVars, bqVars, utilVars,
                   upd_resp, result, sheets, spreadsheet, shist>>

\* Jobs.run returns when the queue is empty
run_return ==
    /\ pc = "run_while"
    /\ queue = <<>>
    /\ pc' = "idle"
    /\ outcome' = "returned"
    /\ UNCHANGED <<comp, args, exc, batchVars, pgVars, jobVars, repVars, bqVars, utilVars,
                   restVars>>

\* legacy Jobs.begin: "for job in self: job.begin()"
legacy_begin ==
    /\ pc = "legacy_begin"
    /\ bjob' = [j \in DOMAIN bjob |-> BegunJob(bjob[j], fate[j])]
    /\ pc' = "legacy_poll"
    /\ UNCHANGED <<comp, args, exc, outcome, jobs, queue, fate, collected, handled,
                   pgVars, jobVars, repVars, bqVars, utilVars, restVars>>

\* legacy Jobs.done: all(job.state == 'DONE' for job in self)
LegacyDone == \A j \in DOMAIN bjob : bjob[j].state = "DONE"

\* legacy Jobs.reload: "for job in self: job.reload()"
LegacyReload(bs) == [j \in DOMAIN bs |-> ReloadedJob(bs[j], fate[j])]

\* legacy Jobs.poll, one iteration of "while not self.done": self.reload();
\* time.sleep(1)
legacy_poll_iter ==
    /\ pc = "legacy_poll"
    /\ ~LegacyDone
    /\ bjob' = LegacyReload(bjob)
    /\ UNCHANGED <<ctl, jobs, queue, fate, collected, handled,
                   pgVars, jobVars, repVars, bqVars, utilVars, restVars>>

\* legacy Jobs.poll returns when every job is DONE
legacy_return ==
    /\ pc = "legacy_poll"
    /\ LegacyDone
    /\ pc' = "idle"
    /\ outcome' = "returned"
    /\ UNCHANGED <<comp, args, exc, batchVars, pgVars, jobVars, repVars, bqVars, utilVars,
                   restVars>>

BatchNext ==
    \/ add \/ run \/ begin_step \/ begin_return \/ run_iter \/ run_return
    \/ legacy_begin \/ legacy_poll_iter \/ legacy_return


\* ============================= fbapi/marketing/reports.py ReportsDownloader
\* An insights job of fate f is terminal from its need-th remote_read on:
\* "Job Failed" if fails, else complete.
RepFates == [need : 1..MaxCycles, fails : BOOLEAN]

IdleRep ==
    /\ rqueue = <<>> /\ yielded = <<>> /\ submitted = <<>>
    /\ rhist = [resubmits |-> 0]

\* ReportsDownloader(ad_account_ids, ...).pull_report_on_date(date)
InitRep ==
    /\ comp = "reports"
    /\ \E n \in 1..MaxAccounts : args = [api |-> "pull_report_on_date", accounts |-> n]
    /\ pc = "submit"
    /\ exc = "none"
    /\ outcome = "running"
    /\ IdleRep

\* submit_async_insights_job(ad_account_id, report_date): a new remote job
SubmitJob(acct, f, orig) ==
    [acct |-> acct, need |-> f.need, fails |-> f.fails, reads |-> 0,
     async_percent_completion |-> 0, time_completed |-> FALSE,
     async_status |-> "Job Not Started", original |-> orig]

\* a job that fails is resubmitted: the MaxSubmits-th job submitted does not fail
MayFail(k) == k < MaxSubmits

\* run_until_complete: jobs_not_completed = collections.deque(jobs) drains
\* submit_async_insights_jobs: one job per ad account, in order
submit ==
    /\ pc = "submit"
    /\ \E fs0 \in [1..args.accounts -> RepFates] :
          /\ \A a \in 1..args.accounts : fs0[a].fails => MayFail(a)
          /\ submitted' = [a \in 1..args.accounts |-> SubmitJob(a, fs0[a], TRUE)]
    /\ rqueue' = [a \in 1..args.accounts |-> a]
    /\ pc' = "run_until_complete"
    /\ UNCHANGED <<comp, args, exc, outcome, yielded, rhist,
                   pgVars, jobVars, batchVars, bqVars, utilVars, restVars>>

\* job.remote_read(): the fields the service reports
RemoteRead(j) ==
    LET n == j.reads + 1 IN
    [j EXCEPT !.reads = n,
              !.async_percent_completion = IF n >= j.need /\ ~j.fails THEN 100 ELSE 50,
              !.time_completed = n >= j.need /\ ~j.fails,
              !.async_status = IF n < j.need THEN "Job Running"
                               ELSE IF j.fails THEN "Job Failed" ELSE "Job Completed"]

\* mutant of JobDone: every job that has not failed is taken for a complete one
JobDoneAlways(j) == TRUE

\* job_done = job['async_percent_completion'] == 100 and 'time_completed' in job
JobDone(j) == j.async_percent_completion = 100 /\ j.time_completed

\* mutant of JobFailed: a failed job is taken for a running one
JobFailedNever(j) == FALSE

\* job_failed = job['async_status'] == "Job Failed"
JobFailed(j) == j.async_status = "Job Failed"

\* run_until_complete, one iteration of "while jobs_not_completed": sleep,
\* popleft, remote_read, then resubmit, re-append or yield
run_until_complete_iter ==
    /\ pc = "run_until_complete"
    /\ rqueue # <<>>
    /\ LET id == Head(rqueue)
           j == RemoteRead(submitted[id])
           new == Len(submitted) + 1
       IN IF JobFailed(j)
            THEN \E f \in RepFates :
                    /\ f.fails => MayFail(new)
                    /\ submitted' = Append([submitted EXCEPT ![id] = j],
                                           SubmitJob(j.acct, f, FALSE))
                    /\ rqueue' = Append(Tail(rqueue), new)
                    /\ rhist' = [rhist EXCEPT !.resubmits = @ + 1]
                    /\ yielded' = yielded
            ELSE /\ submitted' = [submitted EXCEPT ![id] = j]
                 /\ rhist' = rhist
                 /\ IF ~JobDone(j)
                      THEN /\ rqueue' = Append(Tail(rqueue), id)
                           /\ yielded' = yielded
                      ELSE /\ rqueue' = Tail(rqueue)
                           /\ yielded' = Append(yielded, id)
    /\ UNCHANGED <<ctl, pgVars, jobVars, batchVars, bqVars, utilVars, restVars>>

\* run_until_complete ends when jobs_not_completed is empty
run_until_complete_return ==
    /\ pc = "run_until_complete"
    /\ rqueue = <<>>
    /\ pc' = "done"
    /\ outcome' = "returned"
    /\ UNCHANGED <<comp, args, exc, repVars, pgVars, jobVars, batchVars, bqVars, utilVars,
                   restVars>>

RepNext == submit \/ run_until_complete_iter \/ run_until_complete_return


\* ================================== googlecloud/bigquery/io.py BigQueryIO
Paths == SeqsUpTo({"a.csv", "b.csv"}, MaxPaths)
Schemas == {<<>>, <<"id">>}

NewBq(ds, tbl) ==
    [dataset_exists |-> ds, table_exists |-> tbl, tables_created |-> 0,
     uploaded |-> <<>>, jobs_created |-> 0]

IdleBq == bq = NewBq(FALSE, FALSE)

\* BigQueryIO.copy_csv_from / copy_json_from(dataset_name, table_name, paths,
\* create_disposition=..., schema=...) and get_table(dataset_name, name,
\* schema=..., create=..., raises=...)
InitBq ==
    /\ comp = "bigqueryio"
    /\ \E ds \in BOOLEAN, tbl \in BOOLEAN : (tbl => ds) /\ bq = NewBq(ds, tbl)
    /\ \/ \E api \in {"copy_csv_from", "copy_json_from"},
             cd \in {"CREATE_NEVER", "CREATE_IF_NEEDED"},
             schema \in Schemas, ps \in Paths :
             /\ args = [api |-> api, module |-> "io", create_disposition |-> cd,
                        schema |-> schema, paths |-> ps,
                        create |-> FALSE, raises |-> FALSE]
             /\ pc = "check_config"
       \/ \E schema \in Schemas, create \in BOOLEAN, raises \in BOOLEAN :
             /\ args = [api |-> "get_table", module |-> "io",
                        create_disposition |-> "CREATE_NEVER",
                        schema |-> schema, paths |-> <<>>,
                        create |-> create, raises |-> raises]
             /\ pc = "get_table"
    /\ exc = "none"
    /\ outcome = "running"

\* mutant of ConfigRejected: the options are not checked
ConfigNeverRejected(cd, schema) == FALSE

\* "if create_disposition == 'CREATE_IF_NEEDED' and not schema: raise"
ConfigRejected(cd, schema) == cd = "CREATE_IF_NEEDED" /\ schema = <<>>

check_config ==
    /\ pc = "check_config"
    /\ IF ConfigRejected(args.create_disposition, args.schema)
         THEN /\ outcome' = "LoadConfigurationError"
              /\ pc' = "done"
         ELSE /\ outcome' = outcome
              /\ pc' = "get_table"
    /\ UNCHANGED <<comp, args, exc, bqVars, pgVars, jobVars, batchVars, repVars, utilVars,
                   restVars>>

\* get_table: the exception it raises ("none": it returns the table)
GetTableRaises(b, schema, create, raises) ==
    IF ~b.dataset_exists THEN "DatasetNotFound"
    ELSE IF b.table_exists THEN "none"
    ELSE IF create THEN (IF schema # <<>> THEN "none" ELSE "MissingSchema")
    ELSE IF raises THEN "TableNotFound"
    ELSE "none"

\* get_table: "table.schema = make_bq_schema(schema); table.create()"
GetTableCreates(b, schema, create) ==
    b.dataset_exists /\ ~b.table_exists /\ create /\ schema # <<>>

\* get_table(dataset_name, name, schema, create, raises); copy_csv_from and
\* copy_json_from call get_table(dataset_name, table_name)
get_table ==
    /\ pc = "get_table"
    /\ LET own == args.api = "get_table"
           schema == IF own THEN args.schema ELSE <<>>
           create == IF own THEN args.create ELSE FALSE
           raises == IF own THEN args.raises ELSE FALSE
           e == GetTableRaises(bq, schema, create, raises)
       IN /\ bq' = IF GetTableCreates(bq, schema, create)
                     THEN [bq EXCEPT !.table_exists = TRUE, !.tables_created = @ + 1]
                     ELSE bq
          /\ IF e # "none"
               THEN outcome' = e /\ pc' = "done"
               ELSE IF own
               THEN outcome' = "returned" /\ pc' = "done"
               ELSE outcome' = outcome /\ pc' = "load_table_from_storage"
    /\ UNCHANGED <<comp, args, exc, pgVars, jobVars, batchVars, repVars, utilVars, restVars>>

\* source_uris = import_bucket.upload_files(paths);
\* job = bq_client.load_table_from_storage(job_name, table, *source_uris);
\* then execute(job)
load_table_from_storage ==
    /\ pc = "load_table_from_storage"
    /\ bq' = [bq EXCEPT !.uploaded = args.paths, !.jobs_created = @ + 1]
    /\ pc' = "begin"
    /\ UNCHANGED <<comp, args, exc, outcome, pgVars, jobVars, batchVars, repVars, utilVars,
                   restVars>>

BqNext == check_config \/ get_table \/ load_table_from_storage

\* ============================================================== utils/csv.py
\* A file is the sequence of its characters. The characters that matter to
\* the csv module are named ("COMMA" is the default delimiter, "EOL" the end
\* of a line handed to the reader); "a" and "b" stand for any other character.
QUOTE == "QUOTE"    \* the quotechar of the default dialect: "
CR == "CR"
LF == "LF"
CsvFiles ==
    LET CsvFields == {<<>>, <<"a">>, <<"b">>, <<QUOTE>>, <<LF>>}
        CsvRows == SeqsUpTo(CsvFields, MaxFields)
    IN {<<>>} \cup {<<r>> : r \in CsvRows} \cup {<<r, s>> : r, s \in CsvRows}

NoCsvRows == [as_namedtuple |-> FALSE, exc |-> "none", rows |-> <<>>]

IdleCsv == csvfile = <<>> /\ csvrows = NoCsvRows

\* fwrite_csv(fp, rows, delimiter=d) followed by fread_csv(fp, delimiter=d)
InitCsv ==
    /\ comp = "csv"
    /\ \E rows \in CsvFiles, d \in {"COMMA", QUOTE, CR, LF} :
          args = [api |-> "fwrite_csv", rows |-> rows, delimiter |-> d]
    /\ pc = "fwrite_csv"
    /\ exc = "none"
    /\ outcome = "running"
    /\ IdleCsv

\* mutant of NeedsQuote: the writer never quotes a field
NeverQuote(field, d) == FALSE

\* csv.writer, QUOTE_MINIMAL: a field is quoted when it holds the delimiter,
\* the quotechar or a character of the lineterminator
NeedsQuote(field, d) == \E i \in DOMAIN field : field[i] \in {d, QUOTE, CR, LF}

\* fwrite_csv: csv.writer(fp, delimiter=delimiter).writerows(rows).
\* Doubled is doublequote (every quotechar of a quoted field is written
\* twice); WriteRow is writer.writerow: the joined fields (a single empty
\* field is written as two quotechars) and the lineterminator "\r\n"
RECURSIVE Writer(_, _)
Writer(rows, d) ==
    LET RECURSIVE Doubled(_)
        Doubled(field) ==
            IF field = <<>> THEN <<>>
            ELSE (IF Head(field) = QUOTE THEN <<QUOTE, QUOTE>> ELSE <<Head(field)>>)
                     \o Doubled(Tail(field))
        WriteField(field) ==
            IF NeedsQuote(field, d) THEN <<QUOTE>> \o Doubled(field) \o <<QUOTE>>
            ELSE field
        RECURSIVE JoinFields(_)
        JoinFields(row) ==
            IF row = <<>> THEN <<>>
            ELSE IF Len(row) = 1 THEN WriteField(row[1])
            ELSE WriteField(row[1]) \o <<d>> \o JoinFields(Tail(row))
        WriteRow(row) ==
            LET rec == JoinFields(row)
            IN (IF Len(row) > 0 /\ rec = <<>> THEN <<QUOTE, QUOTE>> ELSE rec)
                   \o <<CR, LF>>
    IN IF rows = <<>> THEN <<>> ELSE WriteRow(Head(rows)) \o Writer(Tail(rows), d)

\* csv.reader: the parser of one record, character by character
ProcessChar(st, c, d) ==
    LET SaveField(t) == [t EXCEPT !.fields = Append(@, t.field), !.field = <<>>]
        AddChar(t) == [t EXCEPT !.field = Append(@, c)]
        EndsRecord == c \in {CR, LF, "EOL"}
        AfterRecord == IF c = "EOL" THEN "START_RECORD" ELSE "EAT_CRNL"
        StartField ==
            IF EndsRecord THEN [SaveField(st) EXCEPT !.state = AfterRecord]
            ELSE IF c = QUOTE THEN [st EXCEPT !.state = "IN_QUOTED_FIELD"]
            ELSE IF c = d THEN [SaveField(st) EXCEPT !.state = "START_FIELD"]
            ELSE [AddChar(st) EXCEPT !.state = "IN_FIELD"]
    IN
    CASE st.state = "START_RECORD" ->
            IF c = "EOL" THEN st
            ELSE IF c \in {CR, LF} THEN [st EXCEPT !.state = "EAT_CRNL"]
            ELSE StartField
      [] st.state = "START_FIELD" -> StartField
      [] st.state = "IN_FIELD" ->
            IF EndsRecord THEN [SaveField(st) EXCEPT !.state = AfterRecord]
            ELSE IF c = d THEN [SaveField(st) EXCEPT !.state = "START_FIELD"]
            ELSE AddChar(st)
      [] st.state = "IN_QUOTED_FIELD" ->
            IF c = "EOL" THEN st
            ELSE IF c = QUOTE THEN [st EXCEPT !.state = "QUOTE_IN_QUOTED_FIELD"]
            ELSE AddChar(st)
      [] st.state = "QUOTE_IN_QUOTED_FIELD" ->
            IF c = QUOTE THEN [AddChar(st) EXCEPT !.state = "IN_QUOTED_FIELD"]
            ELSE IF c = d THEN [SaveField(st) EXCEPT !.state = "START_FIELD"]
            ELSE IF EndsRecord THEN [SaveField(st) EXCEPT !.state = AfterRecord]
            ELSE [AddChar(st) EXCEPT !.state = "IN_FIELD"]
      [] st.state = "EAT_CRNL" ->
            IF c \in {CR, LF} THEN st
            ELSE IF c = "EOL" THEN [st EXCEPT !.state = "START_RECORD"]
            ELSE [st EXCEPT !.error = TRUE]
      [] OTHER -> st

\* the reader iterates over the lines of the file (a line ends after LF, after
\* CR LF and after a CR alone) and at the end of the file gives the record it
\* was in the middle of; at the end of a line (EndLine) the record is complete
\* when the parser is back at START_RECORD
RECURSIVE ReadFrom(_, _, _, _)
ReadFrom(text, i, st, d) ==
    LET EndLine(t) ==
            LET s == [ProcessChar(t, "EOL", d) EXCEPT !.midline = FALSE]
            IN IF s.state = "START_RECORD"
                 THEN [s EXCEPT !.rows = Append(@, s.fields), !.fields = <<>>,
                                !.field = <<>>]
                 ELSE s
    IN
    IF i > Len(text)
      THEN IF st.midline THEN ReadFrom(text, i, EndLine(st), d)
           ELSE IF st.state = "IN_QUOTED_FIELD" \/ st.field # <<>>
           THEN [st EXCEPT !.rows = Append(@, Append(st.fields, st.field))]
           ELSE st
      ELSE LET c == text[i]
               s == [ProcessChar(st, c, d) EXCEPT !.midline = TRUE]
               lineEnd == c = LF \/ (c = CR /\ ~(i < Len(text) /\ text[i + 1] = LF))
           IN ReadFrom(text, i + 1, IF lineEnd THEN EndLine(s) ELSE s, d)

\* iterlists: "yield from csv.reader(fp, delimiter=...)"
iterlists(text, d) ==
    LET NewReader == [state |-> "START_RECORD", field |-> <<>>, fields |-> <<>>,
                      rows |-> <<>>, midline |-> FALSE, error |-> FALSE]
        st == ReadFrom(text, 1, NewReader, d)
    IN [as_namedtuple |-> FALSE, exc |-> IF st.error THEN "csv.Error" ELSE "none",
        rows |-> st.rows]

\* itertuples: header = next(reader); Row = namedtuple('Row', header);
\* "for row in reader: yield Row(*row)". collections.namedtuple takes distinct
\* identifiers only (ValidHeader); Tagged is the rows Row(*row) accepts before
\* the first one of another width
itertuples(text, d) ==
    LET ValidHeader(h) ==
            /\ \A i \in DOMAIN h : h[i] \in {<<"a">>, <<"b">>}
            /\ \A i, k \in DOMAIN h : i # k => h[i] # h[k]
        RECURSIVE Tagged(_, _)
        Tagged(h, rows) ==
            IF rows = <<>> \/ Len(Head(rows)) # Len(h) THEN <<>>
            ELSE <<[names |-> h, values |-> Head(rows)]>> \o Tagged(h, Tail(rows))
        r == iterlists(text, d)
        hd == Head(r.rows)
        t == Tagged(hd, Tail(r.rows))
    IN IF r.rows = <<>>
         THEN [as_namedtuple |-> TRUE, exc |-> "RuntimeError", rows |-> <<>>]
       ELSE IF ~ValidHeader(hd)
         THEN [as_namedtuple |-> TRUE, exc |-> "ValueError", rows |-> <<>>]
       ELSE [as_namedtuple |-> TRUE,
             exc |-> IF Len(t) < Len(r.rows) - 1 THEN "TypeError" ELSE r.exc,
             rows |-> t]

fwrite_csv ==
    /\ pc = "fwrite_csv"
    /\ csvfile' = Writer(args.rows, args.delimiter)
    /\ pc' = "fread_csv"
    /\ UNCHANGED <<comp, args, exc, outcome, csvrows, coreVars, upd_idx, upd_i,
                   upd_calls, upd_sleeps, done, num_retries, dlhist, dd_items, seen, dd_out,
                   restVars>>

\* fread_csv(fp, as_namedtuple=..., delimiter=...), drained by the caller
fread_csv ==
    /\ pc = "fread_csv"
    /\ \E nt \in BOOLEAN :
          csvrows' = IF nt THEN itertuples(csvfile, args.delimiter)
                     ELSE iterlists(csvfile, args.delimiter)
    /\ outcome' = IF csvrows'.exc = "none" THEN "returned" ELSE csvrows'.exc
    /\ pc' = "done"
    /\ UNCHANGED <<comp, args, exc, csvfile, coreVars, upd_idx, upd_i, upd_calls,
                   upd_sleeps, done, num_retries, dlhist, dd_items, seen, dd_out, restVars>>



\* ===================================== fbapi/marketing/custom_audience.py update

\* the names bound when "raise RetryError(...)" is evaluated: the globals of
\* the module and the parameters and locals of update
BoundNames == {"time", "logging", "datetime", "requests", "ConnectionError",
               "CustomAudience", "FacebookRequestError", "chunk_iterable",
               "RetryError", "OperationError", "API_VERSION", "logger",
               "get_schema", "create", "delete", "read", "update", "add_users",
               "remove_users",
               "custom_audience", "schema", "chunks", "operation", "max_retry",
               "_update", "idx", "chunk", "i", "response", "e"}

IdleUpd == upd_idx = 0 /\ upd_i = 0 /\ upd_calls = <<>> /\ upd_sleeps = <<>>

\* update(custom_audience, schema, chunks, operation=..., max_retry=...)
InitUpd ==
    /\ comp = "custom_audience"
    /\ \E op \in {"add", "ADD", "remove", "replace"}, n \in 0..MaxChunks, m \in 0..MaxRetry :
          /\ args = [api |-> "update", operation |-> op, chunks |-> n, max_retry |-> m]
          /\ upd_calls = [c \in 1..n |-> 0]
    /\ pc = "update"
    /\ upd_idx = 0
    /\ upd_i = 0
    /\ upd_sleeps = <<>>
    /\ exc = "none"
    /\ outcome = "running"

\* "operation = operation.lower()" and the choice of _update
update ==
    /\ pc = "update"
    /\ IF (IF args.operation = "ADD" THEN "add" ELSE args.operation) \in {"add", "remove"}
         THEN pc' = "for_chunk" /\ outcome' = outcome
         ELSE pc' = "done" /\ outcome' = "OperationError"
    /\ UNCHANGED <<comp, args, exc, upd_idx, upd_i, upd_calls, upd_sleeps, coreVars,
                   csvfile, csvrows, done, num_retries, dlhist, dd_items, seen, dd_out,
                   restVars>>

\* "for idx, chunk in enumerate(chunks)"
for_chunk ==
    /\ pc = "for_chunk"
    /\ IF upd_idx < args.chunks
         THEN /\ upd_idx' = upd_idx + 1
              /\ upd_i' = 0
              /\ pc' = "for_i"
              /\ outcome' = outcome
         ELSE /\ UNCHANGED <<upd_idx, upd_i>>
              /\ pc' = "done"
              /\ outcome' = "returned"
    /\ UNCHANGED <<comp, args, exc, upd_calls, upd_sleeps, coreVars, csvfile, csvrows,
                   done, num_retries, dlhist, dd_items, seen, dd_out, restVars>>

\* the exception that ends update in the else branch of the inner for:
\* "raise RetryError('Retried {} times and failed'.format(MAX_RETRY))" looks
\* MAX_RETRY up before RetryError is built
RetriesExhausted(names) == IF "MAX_RETRY" \in names THEN "RetryError" ELSE "NameError"

\* "for i in range(max_retry)": the next attempt, or the else branch
for_i ==
    /\ pc = "for_i"
    /\ IF upd_i < args.max_retry
         THEN pc' = "_update" /\ outcome' = outcome
         ELSE pc' = "done" /\ outcome' = RetriesExhausted(BoundNames)
    /\ UNCHANGED <<comp, args, exc, upd_idx, upd_i, upd_calls, upd_sleeps, coreVars,
                   csvfile, csvrows, done, num_retries, dlhist, dd_items, seen, dd_out,
                   restVars>>

\* mutant of AfterResponse: an error response is retried like a timeout
AfterResponseRetriesError(answer) ==
    IF answer = "success" THEN "for_chunk" ELSE "for_i"

\* where update goes on after an attempt: "except ConnectionError" falls
\* through to the next i, "if response.is_success(): break" leaves the inner
\* for, "else: raise response.error()" leaves update
AfterResponse(answer) ==
    CASE answer = "ConnectionError" -> "for_i"
      [] answer = "success" -> "for_chunk"
      [] OTHER -> "done"

\* "response = _update(schema=schema, users=chunk)": ConnectionError (sleep,
\* next attempt after time.sleep(2**i)), a successful response (break) or an
\* error response (raise)
_update ==
    /\ pc = "_update"
    /\ upd_calls' = [upd_calls EXCEPT ![upd_idx] = @ + 1]
    /\ \E answer \in {"ConnectionError", "success", "error"} :
          /\ upd_resp' = Append(upd_resp, [chunk |-> upd_idx, answer |-> answer])
          /\ pc' = AfterResponse(answer)
          /\ upd_sleeps' = IF answer = "ConnectionError"
                             THEN Append(upd_sleeps, 2 ^ upd_i) ELSE upd_sleeps
          /\ upd_i' = IF answer = "ConnectionError" THEN upd_i + 1 ELSE upd_i
          /\ outcome' = IF pc' = "done" THEN "FacebookRequestError" ELSE outcome
    /\ UNCHANGED <<comp, args, exc, upd_idx, coreVars, csvfile, csvrows, done,
                   num_retries, dlhist, dd_items, seen, dd_out, delay_mean, result,
                   sheets, spreadsheet, shist>>



\* ===================================== googleapi/drive.py incremental_download
MAX_RETRIES == 15

NoDlHist == [calls |-> 0, sleeps |-> 0, lastSleep |-> 0, streak |-> 0,
             failures |-> 0, lastStatus |-> 0, lastOp |-> "none"]

IdleDl == done = FALSE /\ num_retries = 0 /\ dlhist = NoDlHist

\* incremental_download(fp, request): done = False, num_retries = 0
InitDl ==
    /\ comp = "drive"
    /\ args = [api |-> "incremental_download"]
    /\ pc = "while"
    /\ exc = "none"
    /\ outcome = "running"
    /\ IdleDl

\* mutant of Retryable: every status is retried
RetryableAny(status) == TRUE

\* "e.resp.status in (500, 502, 503, 504)"
Retryable(status) == status \in {500, 502, 503, 504}

\* mutant of HasBudget: one retry more
HasBudgetOneMore(n) == n <= MAX_RETRIES - 1

\* "num_retries < MAX_RETRIES - 1"
HasBudget(n) == n < MAX_RETRIES - 1

\* mutant of AfterSuccess: the counter is kept
AfterSuccessKept(n) == n

\* "else: if num_retries: num_retries = 0"
AfterSuccess(n) == IF n # 0 THEN 0 ELSE n

\* one iteration of "while not done": next_chunk() returns (_, done), or
\* raises HttpError, which is retried after time.sleep(2 ** num_retries) or
\* raised as DownloadError
next_chunk ==
    /\ pc = "while"
    /\ ~done
    /\ dlhist.calls < MaxCalls
    /\ \/ \E d \in BOOLEAN :
             /\ done' = d
             /\ num_retries' = AfterSuccess(num_retries)
             /\ dlhist' = [dlhist EXCEPT !.calls = @ + 1, !.streak = 0,
                                         !.lastStatus = 200, !.lastOp = "next_chunk"]
             /\ UNCHANGED <<pc, outcome>>
       \/ \E status \in {400, 404, 500, 502, 503, 504} :
             IF Retryable(status) /\ HasBudget(num_retries)
               THEN /\ num_retries' = num_retries + 1
                    /\ dlhist' = [dlhist EXCEPT !.calls = @ + 1, !.streak = @ + 1,
                                                !.failures = @ + 1, !.sleeps = @ + 1,
                                                !.lastSleep = 2 ^ num_retries,
                                                !.lastStatus = status,
                                                !.lastOp = "sleep"]
                    /\ UNCHANGED <<done, pc, outcome>>
               ELSE /\ dlhist' = [dlhist EXCEPT !.calls = @ + 1, !.streak = @ + 1,
                                                !.failures = @ + 1,
                                                !.lastStatus = status,
                                                !.lastOp = "next_chunk"]
                    /\ outcome' = "DownloadError"
                    /\ pc' = "done"
                    /\ UNCHANGED <<done, num_retries>>
    /\ UNCHANGED <<comp, args, exc, coreVars, csvfile, csvrows, upd_idx, upd_i,
                   upd_calls, upd_sleeps, dd_items, seen, dd_out, restVars>>

\* the loop ends when next_chunk reported done
download_return ==
    /\ pc = "while"
    /\ done
    /\ pc' = "done"
    /\ outcome' = "returned"
    /\ UNCHANGED <<comp, args, exc, done, num_retries, dlhist, coreVars, csvfile,
                   csvrows, upd_idx, upd_i, upd_calls, upd_sleeps, dd_items, seen, dd_out,
                   restVars>>



\* ===================================================== utils/iterable.py dedupe
Items == {"three", "four", "apple", "moon"}
StrLen == [w \in Items |-> IF w \in {"four", "moon"} THEN 4 ELSE 5]

IdleDd == dd_items = <<>> /\ seen = {} /\ dd_out = <<>>

\* list(dedupe(items, key)): seen = set()
InitDd ==
    /\ comp = "iterable"
    /\ \E its \in SeqsUpTo(Items, MaxItems), key \in {"None", "len"} :
          /\ args = [api |-> "dedupe", items |-> its, key |-> key]
          /\ dd_items = its
    /\ seen = {}
    /\ dd_out = <<>>
    /\ pc = "for_item"
    /\ exc = "none"
    /\ outcome = "running"

\* "val = key(item) if key is not None else item"
KeyOf(item, key) == IF key = "None" THEN item ELSE StrLen[item]

\* mutant of SeenAdd: the value is not remembered
SeenKept(s, val) == s

\* "seen.add(val)"
SeenAdd(s, val) == s \cup {val}

\* one iteration of "for item in items"
for_item ==
    /\ pc = "for_item"
    /\ dd_items # <<>>
    /\ LET item == Head(dd_items)
           val == KeyOf(item, args.key)
       IN IF val \notin seen
            THEN dd_out' = Append(dd_out, item) /\ seen' = SeenAdd(seen, val)
            ELSE UNCHANGED <<dd_out, seen>>
    /\ dd_items' = Tail(dd_items)
    /\ UNCHANGED <<ctl, coreVars, csvfile, csvrows, upd_idx, upd_i, upd_calls,
                   upd_sleeps, done, num_retries, dlhist, restVars>>

\* the generator is exhausted
dedupe_return ==
    /\ pc = "for_item"
    /\ dd_items = <<>>
    /\ pc' = "done"
    /\ outcome' = "returned"
    /\ UNCHANGED <<comp, args, exc, dd_items, seen, dd_out, coreVars, csvfile, csvrows,
                   upd_idx, upd_i, upd_calls, upd_sleeps, done, num_retries, dlhist,
                   restVars>>



\* ============ utils/iterable.py partition, chunk_iterable; utils/date.py date_range
\* A date is its proleptic Gregorian ordinal: datetime.date.min is day 1.

\* list(partition(iterable, k)), list(chunk_iterable(iterable, size)) or
\* list(date_range(since, until))
InitIter ==
    /\ comp = "functions"
    /\ \/ \E api \in {"partition", "chunk_iterable"},
             its \in SeqsUpTo(Items, MaxItems), n \in 0..MaxSize :
             args = [api |-> api, iterable |-> its, k |-> n, size |-> n,
                     since |-> 1, until |-> 1]
       \/ \E since \in 1..MaxDate, until \in 1..MaxDate :
             args = [api |-> "date_range", iterable |-> <<>>, k |-> 0, size |-> 0,
                     since |-> since, until |-> until]
    /\ pc = "call"
    /\ exc = "none"
    /\ outcome = "running"

\* mutant of partition: zip over range(k) instead of itertools.cycle(range(k))
partitionWithoutCycle(iterable, k) ==
    [i \in 1..(IF k < Len(iterable) THEN k ELSE Len(iterable)) |-> <<iterable[i]>>]

\* partition: "for idx, item in zip(itertools.cycle(range(k)), iterable)":
\* partitioned[idx].append(item), or partitioned.append([item]) on IndexError.
\* The cycle over an empty range yields nothing, so zip ends at once.
partition(iterable, k) ==
    LET RECURSIVE loop(_, _)
        loop(partitioned, n) ==
            IF k <= 0 \/ n = Len(iterable) THEN partitioned
            ELSE LET idx == n % k
                     item == iterable[n + 1]
                 IN loop(IF idx < Len(partitioned)
                           THEN [partitioned EXCEPT ![idx + 1] = Append(@, item)]
                           ELSE Append(partitioned, <<item>>),
                         n + 1)
    IN loop(<<>>, 0)

\* mutant of chunk_iterable: a last chunk shorter than size is not yielded
chunk_iterableFullOnly(iterable, size) ==
    [c \in 1..(IF size > 0 THEN Len(iterable) \div size ELSE 0) |->
        SubSeq(iterable, (c - 1) * size + 1, c * size)]

\* chunk_iterable: chunk = tuple(itertools.islice(it, size)); "while chunk:
\* yield chunk; chunk = tuple(itertools.islice(it, size))"
chunk_iterable(iterable, size) ==
    LET islice(it) == SubSeq(it, 1, IF size < Len(it) THEN size ELSE Len(it))
        RECURSIVE loop(_, _)
        loop(it, yields) ==
            LET chunk == islice(it)
            IN IF chunk = <<>> THEN yields
               ELSE loop(SubSeq(it, Len(chunk) + 1, Len(it)), Append(yields, chunk))
    IN loop(iterable, <<>>)

\* mutant of date_range: the loop ends one day early
date_rangeExclusive(since, until) ==
    [value |-> [i \in 1..(IF since < until THEN until - since ELSE 0) |-> until + 1 - i],
     exc |-> "none"]

\* date_range: "while since <= until: yield until; until -= timedelta(days=1)".
\* Subtracting a day from datetime.date.min raises OverflowError when the
\* generator is resumed after it yielded that date.
date_range(since, until) ==
    LET RECURSIVE loop(_, _)
        loop(u, yields) ==
            IF since <= u
              THEN IF u = 1 THEN [value |-> Append(yields, u), exc |-> "OverflowError"]
                   ELSE loop(u - 1, Append(yields, u))
              ELSE [value |-> yields, exc |-> "none"]
    IN loop(until, <<>>)

\* the caller calls the function and drains what it returns
call ==
    /\ pc = "call"
    /\ result' = CASE args.api = "partition" ->
                        [value |-> partition(args.iterable, args.k), exc |-> "none"]
                   [] args.api = "chunk_iterable" ->
                        [value |-> chunk_iterable(args.iterable, args.size), exc |-> "none"]
                   [] OTHER -> date_range(args.since, args.until)
    /\ outcome' = IF result'.exc = "none" THEN "returned" ELSE result'.exc
    /\ pc' = "done"
    /\ UNCHANGED <<comp, args, exc, coreVars, utilVars, delay_mean, upd_resp,
                   sheets, spreadsheet, shist>>


\* ====================================================== googleapi/sheets.py Sheets
\* The metadata of a spreadsheet is the sequence of the properties of its
\* sheets ({} and a spreadsheet without sheets are both <<>>); a sheet has the
\* sheetId 1 when its title is "Sheet1" and 2 when it is "data".
\* Sheets() after __init__, and the remote spreadsheet the caller works on
InitSheets ==
    /\ comp = "sheets"
    /\ args = [api |-> "Sheets"]
    /\ pc = "idle"
    /\ exc = "none"
    /\ outcome = "returned"
    /\ spreadsheet \in {<<[sheetId |-> 1, title |-> "Sheet1"]>>,
                        <<[sheetId |-> 1, title |-> "Sheet1"],
                          [sheetId |-> 2, title |-> "data"]>>}

\* mutant of Reloaded: reload_properties runs before reload_metadata
ReloadedPropertiesFirst(w, fetched) ==
    [w EXCEPT !.metadata = fetched,
              !.properties = [t \in {w.metadata[i].title : i \in DOMAIN w.metadata} |->
                  w.metadata[CHOOSE i \in DOMAIN w.metadata : w.metadata[i].title = t]]]

\* reload: reload_metadata (self._metadata = spreadsheets.get(...).execute()),
\* then reload_properties ({sheet['properties']['title']: sheet['properties']
\* for sheet in self.metadata.get('sheets', [])}: the last sheet of a title
\* wins)
Reloaded(w, fetched) ==
    [w EXCEPT !.metadata = fetched,
              !.properties = [t \in {fetched[i].title : i \in DOMAIN fetched} |->
                  fetched[CHOOSE i \in DOMAIN fetched :
                              /\ fetched[i].title = t
                              /\ \A k \in DOMAIN fetched : k > i => fetched[k].title # t]]]

\* what the service makes of a request of a batchUpdate: addSheet at index 0
\* (refused when the title or the sheetId exists), deleteSheet (refused when
\* the sheet does not exist or is the only one)
ApplyRequest(doc, req) ==
    IF req.kind = "addSheet"
      THEN [ok |-> \A i \in DOMAIN doc : doc[i].title # req.properties.title,
            sheets |-> <<req.properties>> \o doc]
      ELSE [ok |-> Len(doc) > 1 /\ \E i \in DOMAIN doc : doc[i].sheetId = req.sheetId,
            sheets |-> SelectSeq(doc, LAMBDA sh : sh.sheetId # req.sheetId)]

\* batch_update(request): spreadsheets.batchUpdate(...).execute() inside
\* try/except Exception (raise ExecutionError from e), self.reload() in the
\* else branch. The spreadsheet_id property raises MissingSpreadsheetId inside
\* the try when no id was set; the service may refuse or fail the update, and
\* the get of the reload may fail (its error is not caught).
BatchUpdate(op, batch, req) ==
    LET applied == ApplyRequest(spreadsheet, req)
        h == [calls |-> shist.calls + 1, op |-> op, batch |-> batch, request |-> req,
              returned |-> "None", gets |-> 0, updates |-> 0, update_failed |-> FALSE,
              before |-> sheets]
    IN IF sheets.spreadsheet_id = "None"
         THEN /\ outcome' = "ExecutionError"
              /\ shist' = [h EXCEPT !.update_failed = TRUE]
              /\ UNCHANGED <<sheets, spreadsheet>>
         ELSE \/ /\ outcome' = "ExecutionError"
                 /\ shist' = [h EXCEPT !.updates = 1, !.update_failed = TRUE]
                 /\ UNCHANGED <<sheets, spreadsheet>>
              \/ /\ applied.ok
                 /\ spreadsheet' = applied.sheets
                 /\ \/ /\ sheets' = Reloaded(sheets, spreadsheet')
                       /\ outcome' = "returned"
                       /\ shist' = [h EXCEPT !.updates = 1, !.gets = 1,
                                             !.returned = "response"]
                    \/ /\ sheets' = sheets
                       /\ outcome' = "HttpError"
                       /\ shist' = [h EXCEPT !.updates = 1, !.gets = 1]

\* "sheets.spreadsheet_id = value": self._spreadsheet_id = value; self.reload()
spreadsheet_id ==
    /\ comp = "sheets"
    /\ shist.calls < MaxOps
    /\ \E value \in {"None", "id"} :
          LET w == [sheets EXCEPT !.spreadsheet_id = value]
              h == [calls |-> shist.calls + 1, op |-> "spreadsheet_id", batch |-> FALSE,
                    request |-> value, returned |-> "None", gets |-> 0, updates |-> 0,
                    update_failed |-> FALSE, before |-> sheets]
          IN IF value = "None"
               THEN /\ sheets' = w
                    /\ outcome' = "MissingSpreadsheetId"
                    /\ shist' = h
               ELSE \/ /\ sheets' = Reloaded(w, spreadsheet)
                       /\ outcome' = "returned"
                       /\ shist' = [h EXCEPT !.gets = 1]
                    \/ /\ sheets' = w
                       /\ outcome' = "HttpError"
                       /\ shist' = [h EXCEPT !.gets = 1]
    /\ UNCHANGED <<comp, args, pc, exc, spreadsheet, coreVars, utilVars, delay_mean,
                   upd_resp, result>>

\* the requests add(name, batch=...) and delete(sheet_id, batch=...) build
Requests ==
    {[kind |-> "addSheet", properties |-> p, sheetId |-> p.sheetId] :
        p \in {[sheetId |-> 1, title |-> "Sheet1"], [sheetId |-> 2, title |-> "data"]}}
    \cup {[kind |-> "deleteSheet", properties |-> [sheetId |-> i, title |-> ""],
           sheetId |-> i] : i \in {1, 2}}

batch_update ==
    /\ comp = "sheets"
    /\ shist.calls < MaxOps
    /\ \E req \in Requests : BatchUpdate("batch_update", FALSE, req)
    /\ UNCHANGED <<comp, args, pc, exc, coreVars, utilVars, delay_mean, upd_resp, result>>

\* execute: "if batch: return request"
ExecuteNow(batch) == ~batch

\* execute(request, batch): the request itself when batch is true, else
\* batch_update(request)
execute ==
    /\ comp = "sheets"
    /\ shist.calls < MaxOps
    /\ \E req \in Requests, batch \in BOOLEAN :
          IF ExecuteNow(batch)
            THEN BatchUpdate("execute", batch, req)
            ELSE /\ shist' = [calls |-> shist.calls + 1, op |-> "execute", batch |-> batch,
                              request |-> req, returned |-> req, gets |-> 0, updates |-> 0,
                              update_failed |-> FALSE, before |-> sheets]
                 /\ outcome' = "returned"
                 /\ UNCHANGED <<sheets, spreadsheet>>
    /\ UNCHANGED <<comp, args, pc, exc, coreVars, utilVars, delay_mean, upd_resp, result>>


\* ================================================================ the program
IdleCore == IdlePg /\ IdleJob /\ IdleBatch /\ IdleRep /\ IdleBq
IdleUtil == IdleCsv /\ IdleUpd /\ IdleDl /\ IdleDd

\* the state of Jobs.run's delay, of the answers to update, of the functions
\* of utils and of the Sheets wrapper before anything was called
IdleRest ==
    /\ delay_mean = [num |-> 0, den |-> 1]
    /\ upd_resp = <<>>
    /\ result = [value |-> <<>>, exc |-> "none"]
    /\ sheets = [spreadsheet_id |-> "None", metadata |-> <<>>, properties |-> <<>>]
    /\ shist = [calls |-> 0, op |-> "none", batch |-> FALSE, request |-> "None",
                returned |-> "None", gets |-> 0, updates |-> 0, update_failed |-> FALSE,
                before |-> sheets]
    /\ comp # "sheets" => spreadsheet = <<>>

Init ==
    /\ \/ InitPg /\ IdleJob /\ IdleBatch /\ IdleRep /\ IdleBq /\ IdleUtil
       \/ InitJob /\ IdlePg /\ IdleBatch /\ IdleRep /\ IdleBq /\ IdleUtil
       \/ InitBatch /\ IdlePg /\ IdleJob /\ IdleRep /\ IdleBq /\ IdleUtil
       \/ InitRep /\ IdlePg /\ IdleJob /\ IdleBatch /\ IdleBq /\ IdleUtil
       \/ InitBq /\ IdlePg /\ IdleJob /\ IdleBatch /\ IdleRep /\ IdleUtil
       \/ InitCsv /\ IdleCore /\ IdleUpd /\ IdleDl /\ IdleDd
       \/ InitUpd /\ IdleCore /\ IdleCsv /\ IdleDl /\ IdleDd
       \/ InitDl /\ IdleCore /\ IdleCsv /\ IdleUpd /\ IdleDd
       \/ InitDd /\ IdleCore /\ IdleCsv /\ IdleUpd /\ IdleDl
       \/ InitIter /\ IdleCore /\ IdleUtil
       \/ InitSheets /\ IdleCore /\ IdleUtil
    /\ IdleRest

Next ==
    \/ PgNext \/ JobNext \/ BatchNext \/ RepNext \/ BqNext
    \/ fwrite_csv \/ fread_csv
    \/ update \/ for_chunk \/ for_i \/ _update
    \/ next_chunk \/ download_return
    \/ for_item \/ dedupe_return
    \/ call
    \/ spreadsheet_id \/ batch_update \/ execute

Spec == Init /\ [][Next]_vars

\* The single-job pollers alone, with the fairness of a running program: a
\* step of execute/poll that can be taken is taken. Nothing is assumed of the
\* service (RemoteAdvance) nor of the caller (poll_again).
JobInit ==
    /\ \/ InitJob /\ IdlePg /\ IdleBatch /\ IdleRep /\ IdleBq /\ IdleUtil
       \/ InitBq /\ IdlePg /\ IdleJob /\ IdleBatch /\ IdleRep /\ IdleUtil
    /\ IdleRest

JobStep == JobNext \/ BqNext

ProgramStep == begin \/ poll_while \/ reload \/ sleep \/ check_error

LiveSpec == JobInit /\ [][JobStep]_vars /\ WF_vars(ProgramStep)


\* ==================================================================== claims

\* C1 (as claimed): after load_rows has returned or raised, the temporary CSV
\* file written by to_temp_file no longer exists.
C1_TempFileDeletedOnEveryExit ==
    (comp = "postgres" /\ args.api = "load_rows" /\ pc = "done")
        => TmpPath \notin DOMAIN fs

\* C2: load_from_file with truncate_table=True runs TRUNCATE and COPY in one
\* transaction: until both have succeeded the committed table holds exactly the
\* rows it held before the call, also after the call has raised; after a call
\* that returned it holds exactly the rows of the file (without the header line).
C2_TruncateAndCopyAtomic ==
    (comp = "postgres" /\ args.api \in {"load_rows", "load_from_filename"}
                       /\ args.truncate_table) =>
        /\ (pc # "done" \/ outcome # "returned") => table = table0
        /\ (pc = "done" /\ outcome = "returned")
              => table = CopyFrom(<<>>, args.rows, args.header)

\* C2 witness: TRUNCATE succeeded on a table with rows, COPY raised, the call
\* has ended and the rows are still there
C2_Witness ==
    /\ comp = "postgres" /\ args.api \in {"load_rows", "load_from_filename"}
    /\ args.truncate_table /\ pc = "done"
    /\ outcome = "psycopg2.DataError"
    /\ table0 # <<>> /\ table = table0


\* a reload that came after a reload had observed the job DONE
SingleReloadedAfterDone == jhist.reloadAfterDone
BatchReloadedAfterDone == \E j \in DOMAIN bjob : bjob[j].reloadAfterDone

RemotePayload ==
    [type |-> "JobError", job_name |-> JobName,
     error_result |-> [reason |-> remote.error_result, job_name |-> JobName],
     errors |-> <<[job_name |-> JobName]>> \o remote.errors]

BeginOnceBeforeFirstReload ==
    args.api = "execute" =>
        /\ pc # "begin" => jhist.begins = 1
        /\ jhist.reloaded => jhist.beginsAtFirstReload = 1

PollEnded == pc = "check_error" \/ (comp = "job" /\ pc = "done")

\* C5: poll(job) never ends prematurely: it leaves its loop only when a reload
\* has shown it the terminal state of the remote job, it alternates reload and
\* sleep until then and reloads no more afterwards; and under the fairness of a
\* running program it ends once the remote job is terminal. So it ends if and
\* only if the remote job reaches a terminal state.
C5_PollEndsIffJobEnds ==
    /\ [](PollEnded => (job.state = "DONE" /\ remote.state = "DONE"))
    /\ [](pc = "reload" => jhist.lastOp \in {"begin", "sleep"})
    /\ [](pc = "sleep" => jhist.lastOp = "reload")
    /\ [](~SingleReloadedAfterDone)
    /\ ((remote.state = "DONE") ~> (pc = "done"))

\* C5 witness: poll has ended after it reloaded a job that was not yet DONE
\* when poll was called
C5_Witness ==
    /\ comp = "job" /\ pc = "done" /\ jhist.stateAtPoll = "PENDING"
    /\ jhist.reloadsInPoll /\ jhist.lastOp = "sleep"

\* C6: Jobs.run polls round-robin. The queue holds every job of the run that
\* no reload has found DONE, once each; a job found DONE is dropped; the reload
\* counts along the queue never decrease and differ by at most one, so the head
\* is the job that waited longest and between two reloads of a job every other
\* queued job is reloaded exactly once; run has returned exactly when the queue
\* is empty, and then every job of the run was found DONE.
C6_RoundRobin ==
    (comp = "batch" /\ args.module = "jobs") =>
        /\ \A i, k \in DOMAIN queue :
              /\ i < k => queue[i] # queue[k]
              /\ i < k => bjob[queue[i]].reloads <= bjob[queue[k]].reloads
              /\ i < k => bjob[queue[k]].reloads <= bjob[queue[i]].reloads + 1
        /\ \A j \in DOMAIN bjob :
              /\ (pc = "run_while" /\ bjob[j].begins > 0 /\ bjob[j].state # "DONE")
                    => j \in Range(queue)
              /\ (j \in Range(queue) /\ bjob[j].reloads > 0) => bjob[j].state # "DONE"
              /\ j \in Range(collected) => (bjob[j].state = "DONE" /\ j \notin Range(queue))
        /\ pc = "idle" => queue = <<>>
        /\ (pc = "idle" /\ jobs = <<>>) =>
              \A j \in DOMAIN bjob : bjob[j].state = "DONE" /\ bjob[j].reloads > 0

\* C6 witness: in the middle of a round, with a job dropped, two jobs queued
\* and the one at the tail reloaded once more than the one at the head
C6_Witness ==
    /\ comp = "batch" /\ args.module = "jobs" /\ pc = "run_while"
    /\ Len(collected) = 1 /\ Len(queue) = 2
    /\ bjob[queue[2]].reloads = bjob[queue[1]].reloads + 1

\* the poll cycle in which a job of fate f completes
CompletionCycle(f) == IF f.need = 0 THEN 1 ELSE f.need

\* C7: batch poll fairness. Jobs.run and run_until_complete collect the jobs of
\* a batch in the order in which they complete (a job that completes in an
\* earlier poll cycle is collected first), every collected job was reloaded,
\* and when the poll has ended every job of the batch was reloaded at least once.
C7_BatchPollFairness ==
    /\ (comp = "batch" /\ args.module = "jobs") =>
          /\ \A i, k \in DOMAIN collected :
                i < k => CompletionCycle(fate[collected[i]])
                           <= CompletionCycle(fate[collected[k]])
          /\ \A i \in DOMAIN collected :
                bjob[collected[i]].reloads = CompletionCycle(fate[collected[i]])
          /\ (pc = "idle" /\ jobs = <<>>) =>
                \A j \in DOMAIN bjob : bjob[j].reloads >= 1
    /\ comp = "reports" =>
          /\ \A i, k \in DOMAIN yielded :
                (i < k /\ submitted[yielded[i]].original /\ submitted[yielded[k]].original)
                    => submitted[yielded[i]].need <= submitted[yielded[k]].need
          /\ \A i \in DOMAIN yielded :
                submitted[yielded[i]].reads = submitted[yielded[i]].need
          /\ pc = "done" => \A id \in DOMAIN submitted : submitted[id].reads >= 1

\* C7 witness: Jobs.run has ended for three jobs that completed after 1, 2 and 3
\* poll cycles and were not queued in that order
C7_Witness ==
    /\ comp = "batch" /\ args.module = "jobs" /\ pc = "idle" /\ Len(collected) = 3
    /\ \A i \in 1..3 : fate[collected[i]].need = i
    /\ collected # <<3, 2, 1>>


\* the insights jobs that were read as "Job Failed"
FailedReports == {id \in DOMAIN submitted : submitted[id].async_status = "Job Failed"}

NoBeginAfterFailure ==
    /\ ~jhist.beginAfterFailure
    /\ \A j \in DOMAIN bjob : ~bjob[j].beginAfterFailure /\ bjob[j].begins <= 1

C10_ContradictoryOptionsRejectedFirst ==
    comp = "bigqueryio" =>
        /\ ( /\ args.api \in {"copy_csv_from", "copy_json_from"}
             /\ args.create_disposition = "CREATE_IF_NEEDED"
             /\ args.schema = <<>> ) =>
              /\ bq.uploaded = <<>> /\ bq.jobs_created = 0 /\ bq.tables_created = 0
              /\ jhist.begins = 0 /\ remote = NoRemote
              /\ pc \in {"check_config", "done"}
              /\ pc = "done" => outcome = "LoadConfigurationError"
        /\ ( /\ args.api = "get_table" /\ args.create /\ args.schema = <<>>
             /\ bq.dataset_exists /\ ~bq.table_exists ) =>
              /\ bq.tables_created = 0
              /\ pc = "done" => outcome = "MissingSchema"
        /\ ( /\ args.api = "get_table" /\ args.create /\ args.schema = <<>> ) =>
              bq.tables_created = 0

\* C10 witness: copy_csv_from was called with files, CREATE_IF_NEEDED and no
\* schema, and has raised
C10_Witness ==
    /\ comp = "bigqueryio" /\ args.api = "copy_csv_from" /\ pc = "done"
    /\ args.paths # <<>> /\ args.create_disposition = "CREATE_IF_NEEDED"
    /\ args.schema = <<>> /\ outcome = "LoadConfigurationError"


\* C11 (as claimed): when dblink_bq has returned or raised, none of the shard
\* files it downloaded is left in the staging directory and none of the
\* objects it exported is left in the export bucket.
C11_IntermediateFilesRemoved ==
    (comp = "postgres" /\ args.api = "dblink_bq" /\ pc = "done")
        => (DOMAIN fs = {} /\ DOMAIN bucket = {})

\* the paths a multi-file load has to load, in the order they are produced
ExpectedPaths ==
    IF args.api = "dblink_bq" THEN FirstShards(Cardinality(DOMAIN bucket))
    ELSE IF args.glob_pattern # "" THEN args.globbed
    ELSE args.paths

\* C12: load_from_filenames (and dblink_bq through it) calls load_from_filename
\* once per path, in the order the paths are produced, always with the same
\* table name and load options: the calls made so far are a prefix of that
\* order and all of it when the call has returned; glob_pattern, when given,
\* decides the paths whatever paths holds; with neither, the call raises
\* ValueError and has loaded nothing.
C12_OneLoadPerShardInOrder ==
    (comp = "postgres" /\ args.api \in {"load_from_filenames", "dblink_bq"}) =>
        /\ Len(loaded) <= Len(ExpectedPaths)
        /\ \A i \in DOMAIN loaded :
              loaded[i] = [filename |-> ExpectedPaths[i], table_name |-> TableName,
                           truncate_table |-> args.truncate_table,
                           header |-> args.header]
        /\ (pc = "done" /\ outcome = "returned") => Len(loaded) = Len(ExpectedPaths)
        /\ ( /\ pc = "done" /\ args.api = "load_from_filenames"
             /\ args.glob_pattern = "" /\ args.paths = <<>> ) => outcome = "ValueError"
        /\ outcome = "ValueError" =>
              /\ loaded = <<>> /\ table = table0
              /\ args.glob_pattern = "" /\ args.paths = <<>>

\* C12 witness: load_from_filenames has returned after it loaded two files in
\* the order of the glob, which is not the order of the paths it was also given
C12_Witness ==
    /\ comp = "postgres" /\ args.api = "load_from_filenames" /\ pc = "done"
    /\ outcome = "returned" /\ args.glob_pattern # "" /\ Len(args.paths) = 2
    /\ args.paths # args.globbed /\ Len(loaded) = 2
    /\ loaded[1].filename = args.globbed[1] /\ loaded[2].filename = args.globbed[2]

\* C13 (as claimed): a multi-file load (load_from_filenames, dblink_bq) that
\* has failed leaves the destination table as it was before the call.
C13_FailedLoadLeavesTableUnchanged ==
    ( /\ comp = "postgres" /\ args.api \in {"load_from_filenames", "dblink_bq"}
      /\ pc = "done" /\ outcome # "returned" ) => table = table0

\* C14 (as claimed): on both paths of extract the file starts with the line
\* of column names if and only if header is true.
C14_ExtractHeaderSameOnBothPaths ==
    (comp = "postgres" /\ args.api = "extract" /\ pc = "done") =>
        ((Len(fs[filename]) > 0 /\ fs[filename][1] = ColumnLine) <=> args.header)

\* the delimiter occurs in no field of the rows written
DelimiterAbsent ==
    \A r \in DOMAIN args.rows : \A f \in DOMAIN args.rows[r] :
        \A n \in DOMAIN args.rows[r][f] : args.rows[r][f][n] # args.delimiter

\* the first row is a header of distinct identifiers and every row is as wide
WellFormedHeader ==
    /\ args.rows # <<>>
    /\ \A f \in DOMAIN args.rows[1] : args.rows[1][f] \in {<<"a">>, <<"b">>}
    /\ \A f, g \in DOMAIN args.rows[1] : f # g => args.rows[1][f] # args.rows[1][g]
    /\ \A r \in DOMAIN args.rows : Len(args.rows[r]) = Len(args.rows[1])

\* what was read back is what was written: the same rows in the same order
\* with the same fields; as namedtuples, every row after the header tagged
\* with the names of the header
ReadBackEqualsWritten ==
    /\ ~csvrows.as_namedtuple => (csvrows.exc = "none" /\ csvrows.rows = args.rows)
    /\ (csvrows.as_namedtuple /\ WellFormedHeader) =>
          /\ csvrows.exc = "none"
          /\ csvrows.rows = [r \in 1..(Len(args.rows) - 1) |->
                                [names |-> args.rows[1], values |-> args.rows[r + 1]]]

\* C15 (as claimed): for any rows of text fields and any delimiter that does
\* not occur in the data, fread_csv reads back what fwrite_csv wrote.
C15_RoundTripAnyDelimiter ==
    (comp = "csv" /\ pc = "done" /\ DelimiterAbsent) => ReadBackEqualsWritten

\* C15 (amended): as claimed for every delimiter that is not the quote
\* character, a carriage return or a line feed.
C15_RoundTripOrdinaryDelimiter ==
    (comp = "csv" /\ pc = "done" /\ DelimiterAbsent
                  /\ args.delimiter \notin {QUOTE, CR, LF}) => ReadBackEqualsWritten

\* C15 witness: two rows with an empty field, a quote and a line feed were
\* written with a comma and read back as lists, equal to what was written
C15_Witness ==
    /\ comp = "csv" /\ pc = "done" /\ args.delimiter = "COMMA"
    /\ args.rows = << <<<<>>, <<QUOTE>>>>, <<<<LF>>, <<"a">>>> >>
    /\ ~csvrows.as_namedtuple /\ csvrows.rows = args.rows

\* the sleeps made for the chunk being sent: 2**0, 2**1, ... one per
\* ConnectionError
SleepsOfChunk == SubSeq(upd_sleeps, Len(upd_sleeps) - upd_i + 1, Len(upd_sleeps))

\* C16 (as claimed): update calls the API at most max_retry times per chunk,
\* sleeps 2**i seconds after the i-th ConnectionError of a chunk, and ends by
\* raising RetryError when all max_retry attempts for a chunk raised
\* ConnectionError.
C16_BoundedRetryEndsInRetryError ==
    (comp = "custom_audience" /\ upd_idx > 0) =>
        /\ \A c \in DOMAIN upd_calls : upd_calls[c] <= args.max_retry
        /\ upd_i <= Len(upd_sleeps)
        /\ SleepsOfChunk = [k \in 1..upd_i |-> 2 ^ (k - 1)]
        /\ ( /\ pc = "done" /\ args.max_retry > 0
             /\ upd_i = args.max_retry /\ upd_calls[upd_idx] = args.max_retry )
              => outcome = "RetryError"

\* C17: incremental_download retries an HttpError exactly when its status is
\* 500, 502, 503 or 504 and fewer than MAX_RETRIES - 1 retries were made in a
\* row, after a sleep of 2**num_retries seconds (1, 2, 4, ... for consecutive
\* failures); any other HttpError ends the download with DownloadError right
\* after the call, without a sleep; and once next_chunk has reported done it
\* is not called again and the download returns.
C17_RetryOnlyServerErrorsWithBackoff ==
    /\ [](comp = "drive" =>
            /\ dlhist.lastOp = "sleep" =>
                  /\ dlhist.lastStatus \in {500, 502, 503, 504}
                  /\ dlhist.streak < MAX_RETRIES
                  /\ dlhist.lastSleep = 2 ^ (dlhist.streak - 1)
                  /\ pc = "while" /\ ~done
            /\ dlhist.sleeps = dlhist.failures - (IF outcome = "DownloadError" THEN 1 ELSE 0)
            /\ (pc = "done" /\ outcome = "DownloadError") =>
                  /\ dlhist.lastOp = "next_chunk"
                  /\ dlhist.lastStatus \in {400, 404}
                        \/ (dlhist.lastStatus \in {500, 502, 503, 504}
                               /\ dlhist.streak = MAX_RETRIES)
            /\ dlhist.lastStatus \in {400, 404} =>
                  (pc = "done" /\ outcome = "DownloadError")
            /\ (pc = "done" /\ outcome = "returned") =>
                  (done /\ dlhist.lastStatus = 200 /\ dlhist.calls >= 1)
            /\ dlhist.failures = 0 => outcome # "DownloadError")
    /\ [][(comp = "drive" /\ done) => dlhist'.calls = dlhist.calls]_vars

\* C17 witness: the second call failed with status 503, the download slept,
\* the third failed with 504, it slept twice as long, and it has returned
C17_Witness ==
    /\ comp = "drive" /\ pc = "done" /\ outcome = "returned"
    /\ dlhist.calls = 4 /\ dlhist.failures = 2 /\ dlhist.sleeps = 2
    /\ dlhist.lastSleep = 2

\* C18: when every call of next_chunk fails with a retryable status,
\* incremental_download raises DownloadError after exactly MAX_RETRIES calls
\* and MAX_RETRIES - 1 sleeps: not before the MAX_RETRIES-th call, and there
\* is no call after it.
C18_GivesUpAfterMaxRetriesCalls ==
    ( /\ comp = "drive" /\ dlhist.failures = dlhist.calls
      /\ dlhist.lastStatus \in {0, 500, 502, 503, 504} ) =>
        /\ dlhist.calls <= MAX_RETRIES
        /\ dlhist.calls < MAX_RETRIES =>
              (pc = "while" /\ outcome = "running" /\ dlhist.sleeps = dlhist.calls)
        /\ dlhist.calls = MAX_RETRIES =>
              /\ pc = "done" /\ outcome = "DownloadError"
              /\ dlhist.sleeps = MAX_RETRIES - 1

\* C18 witness: DownloadError after MAX_RETRIES failed calls and no other call
C18_Witness ==
    /\ comp = "drive" /\ pc = "done" /\ outcome = "DownloadError"
    /\ dlhist.calls = MAX_RETRIES /\ dlhist.failures = MAX_RETRIES
    /\ dlhist.lastStatus = 500

\* C19: num_retries counts the failures in a row: it is the number of calls
\* that failed since the last call that succeeded, so a success sets it to 0
\* and the next backoff is 2**0 again; a download is given up for retryable
\* failures only at the MAX_RETRIES-th failure in a row, whatever the total
\* number of failures.
C19_CounterCountsConsecutiveFailures ==
    comp = "drive" =>
        /\ pc = "while" => num_retries = dlhist.streak
        /\ dlhist.lastStatus = 200 => num_retries = 0
        /\ dlhist.lastOp = "sleep" => dlhist.lastSleep = 2 ^ (num_retries - 1)
        /\ (dlhist.lastOp = "sleep" /\ dlhist.streak = 1) => dlhist.lastSleep = 1
        /\ ( /\ pc = "done" /\ outcome = "DownloadError"
             /\ dlhist.lastStatus \in {500, 502, 503, 504} )
              => dlhist.streak = MAX_RETRIES

\* C19 witness: a download that returned although MAX_RETRIES calls or more
\* had failed
C19_Witness ==
    /\ comp = "drive" /\ pc = "done" /\ outcome = "returned"
    /\ dlhist.failures >= MAX_RETRIES

\* the items of s whose key value occurs at no earlier position of s
RECURSIVE FirstPerKey(_, _, _)
FirstPerKey(s, n, key) ==
    IF n > Len(s) THEN <<>>
    ELSE (IF \A k \in 1..(n - 1) :
                (IF key = "None" THEN s[k] ELSE StrLen[s[k]])
                    # (IF key = "None" THEN s[n] ELSE StrLen[s[n]])
            THEN <<s[n]>> ELSE <<>>) \o FirstPerKey(s, n + 1, key)

\* C20: dedupe yields, in input order, exactly the first item of every key
\* value: of the items consumed so far it has yielded those whose key occurs
\* at no earlier position, no two yielded items share a key, every key of the
\* items consumed is the key of a yielded item, and it ends when the input is
\* exhausted.
C20_DedupeYieldsFirstPerKey ==
    comp = "iterable" =>
        LET consumed == SubSeq(args.items, 1, Len(args.items) - Len(dd_items))
            K(x) == IF args.key = "None" THEN x ELSE StrLen[x]
        IN /\ dd_out = FirstPerKey(consumed, 1, args.key)
           /\ \A i, k \in DOMAIN dd_out : i # k => K(dd_out[i]) # K(dd_out[k])
           /\ \A i \in DOMAIN consumed : \E k \in DOMAIN dd_out : K(dd_out[k]) = K(consumed[i])
           /\ seen = {K(dd_out[k]) : k \in DOMAIN dd_out}
           /\ pc = "done" => dd_items = <<>>

\* C20 witness: four strings deduplicated by their length
C20_Witness ==
    /\ comp = "iterable" /\ pc = "done" /\ args.key = "len"
    /\ args.items = <<"three", "four", "apple", "moon">>
    /\ dd_out = <<"three", "four">>


\* ------------------------------------------------------------------ C21
\* C21: for k >= 1, partition(iterable, k) puts the item at index i into
\* partition i mod k, at the place i div k (input order), the sizes of the
\* partitions differ by at most one, the partitions together hold exactly the
\* items of the input, and there are min(k, length) partitions.
C21_PartitionRoundRobin ==
    (comp = "functions" /\ args.api = "partition" /\ pc = "done" /\ args.k >= 1) =>
        LET its == args.iterable
            k == args.k
            r == result.value
            RECURSIVE total(_)
            total(p) == IF p = 0 THEN 0 ELSE Len(r[p]) + total(p - 1)
        IN /\ outcome = "returned"
           /\ Len(r) = (IF k < Len(its) THEN k ELSE Len(its))
           /\ \A i \in 0..(Len(its) - 1) :
                 /\ (i \div k) + 1 \in DOMAIN r[(i % k) + 1]
                 /\ r[(i % k) + 1][(i \div k) + 1] = its[i + 1]
           /\ total(Len(r)) = Len(its)
           /\ \A p, q \in DOMAIN r : Len(r[p]) - Len(r[q]) <= 1

\* C21 witness: the four items of TestPartition.test_partition_1 split in two
C21_Witness ==
    /\ comp = "functions" /\ args.api = "partition" /\ pc = "done"
    /\ args.iterable = <<"three", "four", "three", "moon">> /\ args.k = 2
    /\ result.value = << <<"three", "three">>, <<"four", "moon">> >>

\* ------------------------------------------------------------------ C22
RECURSIVE Concat(_)
Concat(ss) == IF ss = <<>> THEN <<>> ELSE Head(ss) \o Concat(Tail(ss))

\* C22: for size >= 1, the chunks chunk_iterable(iterable, size) yields are
\* consecutive pieces of the input whose concatenation is the input: every
\* chunk but the last has exactly size elements, the last has between 1 and
\* size, none is empty, and an empty input yields nothing.
C22_ChunksCoverInput ==
    (comp = "functions" /\ args.api = "chunk_iterable" /\ pc = "done" /\ args.size >= 1) =>
        LET r == result.value
        IN /\ outcome = "returned"
           /\ Concat(r) = args.iterable
           /\ \A c \in DOMAIN r :
                 /\ Len(r[c]) >= 1
                 /\ Len(r[c]) <= args.size
                 /\ c < Len(r) => Len(r[c]) = args.size
           /\ args.iterable = <<>> => r = <<>>

\* C22 witness: four items in chunks of three, the last chunk short
C22_Witness ==
    /\ comp = "functions" /\ args.api = "chunk_iterable" /\ pc = "done"
    /\ args.iterable = <<"three", "four", "apple", "moon">> /\ args.size = 3
    /\ result.value = << <<"three", "four", "apple">>, <<"moon">> >>

\* ------------------------------------------------------------------ C23
\* C23: date_range(since, until) yields until, until - 1 day, ..., since, each
\* date once and in this order: one date when since = until, none when since
\* is later than until.
C23_DatesDescendInclusive ==
    (comp = "functions" /\ args.api = "date_range" /\ pc = "done") =>
        LET r == result.value
        IN /\ Len(r) = (IF args.since <= args.until THEN args.until - args.since + 1 ELSE 0)
           /\ \A i \in DOMAIN r : r[i] = args.until - (i - 1)
           /\ args.since = args.until => r = <<args.until>>
           /\ args.since > args.until => r = <<>>

\* C23 witness: three days, the latest first
C23_Witness ==
    /\ comp = "functions" /\ args.api = "date_range" /\ pc = "done"
    /\ args.since = 2 /\ args.until = 4
    /\ result.value = <<4, 3, 2>>
    /\ outcome = "returned"

\* ------------------------------------------------------------------ C24
\* C24 (as claimed): when load_from_filenames has returned after loading two
\* files or more, the table holds the rows of all of them, after the rows it
\* held before the call or, with truncate_table=True, after nothing: the table
\* was truncated before the first file at most.
C24_TableHoldsAllFiles ==
    ( /\ comp = "postgres" /\ args.api = "load_from_filenames"
      /\ pc = "done" /\ outcome = "returned" /\ Len(loaded) >= 2 ) =>
        LET RECURSIVE after(_, _)
            after(tbl, i) ==
                IF i > Len(loaded) THEN tbl
                ELSE after(CopyFrom(tbl, fs[loaded[i].filename], args.header), i + 1)
        IN table = after(IF args.truncate_table THEN <<>> ELSE table0, 1)

\* ------------------------------------------------------------------ C25
\* C25: in Jobs.run a job that ends with an error_result does not end the
\* batch: run raises nothing, the error of every failed job observed DONE was
\* handled (logged), in the order of completion, and every job the run began
\* is DONE or still in the poll queue, so that when run has returned every
\* job it began is DONE.
C25_FailedJobDoesNotAbortBatch ==
    (comp = "batch" /\ args.module = "jobs") =>
        /\ outcome \in {"running", "returned"}
        /\ handled = SelectSeq(collected, LAMBDA j : fate[j].fails)
        /\ pc = "run_while" =>
              \A j \in DOMAIN bjob :
                  bjob[j].begins > 0 => (bjob[j].state = "DONE" \/ j \in Range(queue))
        /\ pc = "idle" => \A j \in DOMAIN bjob : bjob[j].begins > 0 => bjob[j].state = "DONE"

\* C25 witness: run has returned; the job that was DONE first had failed, and
\* a job that needed more reloads was polled to its end after it
C25_Witness ==
    /\ comp = "batch" /\ args.module = "jobs" /\ pc = "idle" /\ outcome = "returned"
    /\ Len(collected) = 2 /\ handled = <<collected[1]>>
    /\ bjob[collected[2]].reloads > bjob[collected[1]].reloads
    /\ bjob[collected[2]].state = "DONE"

\* ------------------------------------------------------------------ C26
\* C26: on a jobs.Jobs batch, whatever add() and run() calls were made, a job
\* is in the pending list exactly as long as begin() was not called on it, and
\* begin() is called on no job twice; the pending list is empty from the end
\* of _begin until run() returns; no job is in the poll queue twice, the queue
\* holds begun jobs that are not yet collected only, and no job is reloaded
\* after the run that began it observed it DONE.
C26_EveryJobBegunOnce ==
    (comp = "batch" /\ args.module = "jobs") =>
        /\ \A j \in DOMAIN bjob :
              /\ bjob[j].begins <= 1
              /\ (bjob[j].begins = 0) <=> (j \in Range(jobs))
              /\ ~bjob[j].reloadAfterDone
        /\ \A i, k \in DOMAIN jobs : i # k => jobs[i] # jobs[k]
        /\ pc = "run_while" => jobs = <<>>
        /\ \A i, k \in DOMAIN queue : i # k => queue[i] # queue[k]
        /\ \A i \in DOMAIN queue :
              bjob[queue[i]].begins = 1 /\ queue[i] \notin Range(collected)

\* C26 witness: a second run() has returned; it polled the job added after the
\* first run only, and both jobs were begun once
C26_Witness ==
    /\ comp = "batch" /\ args.module = "jobs" /\ pc = "idle" /\ outcome = "returned"
    /\ Len(bjob) = 2 /\ jobs = <<>> /\ collected = <<2>>
    /\ bjob[1].begins = 1 /\ bjob[2].begins = 1
    /\ bjob[1].reloads = fate[1].need /\ fate[1].need > 0

\* ------------------------------------------------------------------ C27
\* C27: in Jobs.run every iteration sleeps with the mean 3/n, n being the
\* length of the queue before the polled job is taken out of it, so n >= 1;
\* run ends neither with ZeroDivisionError nor with the AssertionError of
\* random_delay.
C27_DelayMeanIsThreeOverQueueLength ==
    /\ [](comp = "batch" => outcome \notin {"ZeroDivisionError", "AssertionError"})
    /\ [][(comp = "batch" /\ pc = "run_while" /\ queue # <<>>) =>
             /\ delay_mean' = [num |-> 3, den |-> Len(queue)]
             /\ delay_mean'.den >= 1]_vars

\* C27 witness: the last job of a batch of three is polled alone: the mean is 3
C27_Witness ==
    /\ comp = "batch" /\ args.module = "jobs" /\ pc = "run_while"
    /\ Len(bjob) = 3 /\ Len(collected) = 3 /\ queue = <<>>
    /\ delay_mean = [num |-> 3, den |-> 1]

\* ------------------------------------------------------------------ C28
\* C28: run_until_complete yields no job twice and at most one job per ad
\* account, and one job of every account when it has ended; every yielded job
\* is complete (async_percent_completion = 100 with time_completed) and not
\* failed; every submitted job is in the queue, or was yielded, or has failed
\* and was replaced by a job submitted for the same account; the queue holds
\* no job twice, at most one job per account and never more jobs than there
\* are accounts.
C28_OneCompleteJobPerAccount ==
    comp = "reports" =>
        LET acct(id) == submitted[id].acct
            Replaced(id) == /\ JobFailed(submitted[id])
                            /\ \E n \in DOMAIN submitted :
                                  n > id /\ acct(n) = acct(id) /\ ~submitted[n].original
        IN /\ \A i, k \in DOMAIN yielded : i # k => acct(yielded[i]) # acct(yielded[k])
           /\ \A i \in DOMAIN yielded :
                 /\ submitted[yielded[i]].async_percent_completion = 100
                 /\ submitted[yielded[i]].time_completed
                 /\ submitted[yielded[i]].async_status # "Job Failed"
           /\ \A id \in DOMAIN submitted :
                 \/ id \in Range(rqueue) /\ id \notin Range(yielded) /\ ~Replaced(id)
                 \/ id \notin Range(rqueue) /\ id \in Range(yielded) /\ ~Replaced(id)
                 \/ id \notin Range(rqueue) /\ id \notin Range(yielded) /\ Replaced(id)
           /\ \A i, k \in DOMAIN rqueue : i # k => acct(rqueue[i]) # acct(rqueue[k])
           /\ Len(rqueue) <= args.accounts
           /\ \A i \in DOMAIN rqueue : \A k \in DOMAIN yielded : acct(rqueue[i]) # acct(yielded[k])
           /\ pc = "done" =>
                 /\ Len(yielded) = args.accounts
                 /\ \A a \in 1..args.accounts : \E i \in DOMAIN yielded : acct(yielded[i]) = a

\* C28 witness: two accounts; the job of the first one failed and its
\* resubmission was yielded after the job of the second one
C28_Witness ==
    /\ comp = "reports" /\ pc = "done" /\ args.accounts = 2
    /\ Len(submitted) = 3 /\ yielded = <<2, 3>>
    /\ submitted[1].async_status = "Job Failed" /\ submitted[3].acct = 1

\* ------------------------------------------------------------------ C29
\* C29: update sends the chunks in input order: the first call is for the
\* first chunk, every later call is for the chunk of the call before it, or
\* for the next chunk and then the call before it was answered with success;
\* a chunk answered with success is not sent again; an error response is the
\* last answer update receives and update has ended with its error; when
\* update has ended with any error, no call was made for a later chunk.
C29_ChunksSentInOrder ==
    comp = "custom_audience" =>
        /\ \A n \in DOMAIN upd_resp :
              /\ n = 1 => upd_resp[n].chunk = 1
              /\ n > 1 =>
                    IF upd_resp[n - 1].answer = "success"
                      THEN upd_resp[n].chunk = upd_resp[n - 1].chunk + 1
                      ELSE upd_resp[n].chunk = upd_resp[n - 1].chunk
              /\ upd_resp[n].answer = "error" =>
                    /\ n = Len(upd_resp)
                    /\ pc = "done"
                    /\ outcome = "FacebookRequestError"
        /\ \A c \in DOMAIN upd_calls :
              upd_calls[c] = Cardinality({n \in DOMAIN upd_resp : upd_resp[n].chunk = c})
        /\ outcome \notin {"running", "returned"} =>
              /\ pc = "done"
              /\ \A c \in DOMAIN upd_calls : c > upd_idx => upd_calls[c] = 0
              /\ \A n \in DOMAIN upd_resp : upd_resp[n].chunk <= upd_idx

\* C29 witness: the first chunk succeeded at its second attempt, the second
\* chunk was answered with an error and update raised it
C29_Witness ==
    /\ comp = "custom_audience" /\ pc = "done" /\ outcome = "FacebookRequestError"
    /\ upd_resp = <<[chunk |-> 1, answer |-> "ConnectionError"],
                    [chunk |-> 1, answer |-> "success"],
                    [chunk |-> 2, answer |-> "error"]>>

\* ------------------------------------------------------------------ C30
\* the title-to-properties map of a metadata
TitleMap(md) ==
    [t \in {md[i].title : i \in DOMAIN md} |->
        md[CHOOSE i \in DOMAIN md :
              md[i].title = t /\ \A k \in DOMAIN md : k > i => md[k].title # t]]

\* the parts of C30 about calls that do not fail: properties is the
\* title-to-properties map of the metadata; setting spreadsheet_id, and a
\* batch_update (also through execute with batch false) that returns, fetch
\* the metadata once, after the update was applied, so that metadata is the
\* remote spreadsheet; execute with batch true returns the request itself,
\* calls no API and changes nothing
CacheInStep ==
    /\ sheets.properties = TitleMap(sheets.metadata)
    /\ (shist.op = "spreadsheet_id" /\ outcome = "returned") =>
          /\ shist.gets = 1 /\ shist.updates = 0
          /\ sheets.spreadsheet_id = shist.request
          /\ sheets.metadata = spreadsheet
    /\ (shist.op \in {"batch_update", "execute"} /\ ~shist.batch /\ outcome = "returned") =>
          /\ shist.updates = 1 /\ shist.gets = 1
          /\ sheets.metadata = spreadsheet
          /\ sheets.properties = TitleMap(spreadsheet)
    /\ (shist.op = "execute" /\ shist.batch) =>
          /\ outcome = "returned"
          /\ shist.returned = shist.request
          /\ shist.gets = 0 /\ shist.updates = 0
          /\ sheets = shist.before

\* C30 (as claimed): the cache is in step with the remote spreadsheet, and a
\* batch_update that fails raises ExecutionError and leaves metadata and
\* properties unchanged.
C30_FailingBatchUpdateRaisesExecutionError ==
    comp = "sheets" =>
        /\ CacheInStep
        /\ (shist.op \in {"batch_update", "execute"} /\ outcome # "returned") =>
              /\ outcome = "ExecutionError"
              /\ sheets = shist.before

\* C30 (amended): the cache is in step with the remote spreadsheet as far as
\* calls return. A batch_update whose batchUpdate request fails, or that has
\* no spreadsheet id, raises ExecutionError without fetching anything, and
\* nothing else raises ExecutionError; a batch_update whose request was
\* applied and whose reload fails raises the error of the reload as it is.
\* In both cases metadata and properties are left as they were.
C30_CacheFollowsRemote ==
    comp = "sheets" =>
        /\ CacheInStep
        /\ shist.update_failed =>
              /\ outcome = "ExecutionError"
              /\ shist.gets = 0
              /\ sheets = shist.before
        /\ outcome = "ExecutionError" => shist.update_failed
        /\ (shist.op \in {"batch_update", "execute"}
               /\ outcome \notin {"returned", "ExecutionError"}) =>
              /\ outcome = "HttpError"
              /\ shist.updates = 1 /\ shist.gets = 1
              /\ sheets = shist.before

\* C30 witness: after a batch_update that added the sheet "data" and
\* reloaded, a second batch_update was applied but its reload failed: the
\* cache still holds both sheets, the remote spreadsheet one
C30_Witness ==
    /\ comp = "sheets" /\ outcome = "HttpError" /\ shist.op = "batch_update"
    /\ shist.request.kind = "deleteSheet" /\ shist.updates = 1
    /\ Len(sheets.metadata) = 2 /\ Len(spreadsheet) = 1
    /\ DOMAIN sheets.properties = {"Sheet1", "data"}
    /\ sheets.properties["data"].sheetId = 2
    /\ sheets = shist.before

====
